---- MODULE Spec2Model ----
(***************************************************************************)
(* Route dispatch pipeline of the Elysia adapter for Mastra                *)
(* (src/src/server.ts, class ElysiaServer).                                *)
(*                                                                         *)
(* One request travels through the lifecycle that init() registers:        *)
(*   derive (context)  -> derive (auth) -> onBeforeHandle (body limit)     *)
(*   -> onBeforeHandle (401 gate) -> onBeforeHandle (authorize)            *)
(*   -> route handler (extract, validate, call handler, sendResponse |     *)
(*   handleRouteError).                                                    *)
(* A hook, the route handler or pull() runs from one await to the next in  *)
(* one step: each `await` ends a step and the code after it is a step of   *)
(* its own, taken when the awaited promise has settled.                    *)
(* Elysia runs every derive hook, then the onBeforeHandle hooks in         *)
(* registration order; the first hook that returns a value ends the        *)
(* request with that value as the body and the route handler is skipped.   *)
(*                                                                         *)
(* Optional JavaScript values (T | undefined | null) are sequences of      *)
(* length 0 or 1: None is <<>>, Some(x) is <<x>>.                          *)
(* A URL path "/a/b" is the sequence <<"a", "b">> of its segments, "/" is  *)
(* <<>>, and an override key "METHOD:PATH" is the record [m, p].           *)
(***************************************************************************)
EXTENDS Integers, Sequences, FiniteSets, TLC

VARIABLES
    bodyLimit,        \* this.bodyLimit: None, or Some(the bodyLimitOptions)
    routeAuthConfig,  \* this.routeAuthConfig: override key -> BOOLEAN
    authConfig,       \* this.mastra.getServer()?.auth
    route,            \* the ServerRoute matched by the request
    request,          \* the inbound Request (method, path, authorization header)
    pc,               \* lifecycle position of the request
    ctx,              \* the Elysia context: values attached by the derive hooks
    authOverride,     \* result of checkRouteAuthOverride for this request
    setStatus,        \* context.set.status
    response,         \* None, or Some(body) once a hook or the handler returned
    calls,            \* the calls made to the provider functions and to route.handler
    trace,            \* the stages entered so far, in order
    handlerOutcome,   \* None, or Some(what route.handler returned or threw)
    stream,           \* the handler's chunk source and the encoder's output stream
    signal,           \* request.signal and the AbortController derived from it
    tasks             \* the requests in flight together, each with its own state

vars == <<bodyLimit, routeAuthConfig, authConfig, route, request, pc, ctx, authOverride,
          setStatus, response, calls, trace, handlerOutcome, stream, signal, tasks>>

----------------------------------------------------------------------------
(* Bounds *)

MaxSegs == 2
MaxKeys == 2
\* chunks a handler's fullStream yields before it ends
MaxChunks == 3
MaxProps == 2
MaxRequests == 2

----------------------------------------------------------------------------
(* Optional values *)

None == <<>>
Some(x) == <<x>>
\* a ?? b
Coalesce(a, b) == IF a # None THEN a ELSE b

\* {}: an object without properties
NoFields == [k \in {} |-> TRUE]
\* {...a, ...b}: the properties of a, then those of b, the later one winning
Spread(a, b) ==
    [k \in DOMAIN a \cup DOMAIN b |-> IF k \in DOMAIN b THEN b[k] ELSE a[k]]

----------------------------------------------------------------------------
(* Input domains *)

Segments == {"admin", "public"}
RequestMethods == {"GET", "POST"}
KeyMethods == {"GET", "ALL"}

\* Request paths: "/", and the paths of at most MaxSegs segments whose
\* segments before the last are "admin" ("/admin/public", "/admin/admin", ...)
Paths ==
    {p \in UNION {[1..n -> Segments] : n \in 0..MaxSegs} :
        \A i \in 1..(Len(p) - 1) : p[i] = "admin"}
KeyPaths == Paths \cup {p \o <<"*">> : p \in Paths}
Keys == [m : KeyMethods, p : KeyPaths]

RECURSIVE KeySets(_)
KeySets(k) ==
    IF k = 0 THEN {{}}
    ELSE LET smaller == KeySets(k - 1)
         IN  smaller \cup {S \cup {x} : S \in smaller, x \in Keys}

OverrideMaps == UNION {[D -> BOOLEAN] : D \in KeySets(MaxKeys)}

\* The override maps of the documentation: README.md (Authentication) and the
\* wildcard scenario, over the segment names of the model; the empty map
\* stands for an absent or empty customRouteAuthConfig.
DocumentedMaps ==
    { [k \in {} |-> TRUE],
      [k \in {[m |-> "ALL", p |-> <<"admin", "*">>]} |-> TRUE],
      [k \in {[m |-> "ALL", p |-> <<"admin", "*">>],
              [m |-> "GET", p |-> <<"admin", "public">>]}
          |-> (k.m = "ALL")],
      [k \in {[m |-> "GET", p |-> <<"public">>],
              [m |-> "POST", p |-> <<"public", "*">>],
              [m |-> "ALL", p |-> <<"admin", "*">>]}
          |-> (k.m = "ALL")] }

\* Authorization header: absent, or the string made of these pieces
Headers == {None, Some(<<"Bearer ", "tok">>), Some(<<"tok">>)}

\* mastra.getServer()?.auth: absent, or any combination of the three functions
AuthConfigs ==
    {[present |-> FALSE, authenticateToken |-> FALSE,
      authorize |-> FALSE, authorizeUser |-> FALSE]}
    \cup [present : {TRUE}, authenticateToken : BOOLEAN,
          authorize : BOOLEAN, authorizeUser : BOOLEAN]

ResponseTypes == {"json", "stream", "datastream-response", "mcp-http", "mcp-sse"}
\* streamFormat is read by the stream route only (mcp-sse forces "sse")
Routes ==
    {r \in [responseType : ResponseTypes, streamFormat : {"sse", "ndjson"},
            schemas : {{}, {"body"}}] :
        r.streamFormat = "ndjson" => r.responseType = "stream"}

\* what authenticateToken does: returns a principal, returns a falsy value, throws
AuthnOutcomes == {"alice", "null", "throw"}
\* what authorize / authorizeUser does
AuthzOutcomes == {"true", "false", "throw"}

----------------------------------------------------------------------------
(* Route Auth Resolver: ElysiaServer.checkRouteAuthOverride *)

\* request.method.toUpperCase()
ToUpperCase(m) ==
    CASE m = "get" -> "GET"
      [] m = "post" -> "POST"
      [] m = "all" -> "ALL"
      [] OTHER -> m

\* `${method}:${path}`
Key(method, path) == [m |-> method, p |-> path]

\* path.split('/').filter(Boolean)
PathParts(path) == SelectSeq(path, LAMBDA s : s # "")

\* '/' + pathParts.slice(0, i).join('/') + '/*'
WildcardPath(pathParts, i) == SubSeq(pathParts, 1, i) \o <<"*">>

\* routeAuthConfig.has(key) ? Some(routeAuthConfig.get(key)) : None
Lookup(cfg, key) == IF key \in DOMAIN cfg THEN Some(cfg[key]) ELSE None

\* Mutant: the wildcard loop runs from the shortest prefix to the longest
WildcardLookup_ShortestFirst(cfg, method, pathParts, i) ==
    LET hits == {j \in 1..i : Key(method, WildcardPath(pathParts, j)) \in DOMAIN cfg}
    IN  IF hits = {} THEN None
        ELSE LET j == CHOOSE h \in hits : \A h2 \in hits : h <= h2
             IN  Some(cfg[Key(method, WildcardPath(pathParts, j))])

\* Mutant: the loop gives up at the first prefix that has no key
WildcardLookup_StopsAtMiss(cfg, method, pathParts, i) ==
    IF i <= 0 THEN None
    ELSE Lookup(cfg, Key(method, WildcardPath(pathParts, i)))

\* Mutant: the loop starts one segment short, so "/p/*" applies only below /p
WildcardLookup_BelowOnly(cfg, method, pathParts, i) ==
    LET hits == {j \in 1..(i - 1) : Key(method, WildcardPath(pathParts, j)) \in DOMAIN cfg}
    IN  IF hits = {} THEN None
        ELSE LET j == CHOOSE h \in hits : \A h2 \in hits : h >= h2
             IN  Some(cfg[Key(method, WildcardPath(pathParts, j))])

\* for (let i = pathParts.length; i > 0; i--) { ... has(wildcardKey) ... }
RECURSIVE WildcardLookup(_, _, _, _)
WildcardLookup(cfg, method, pathParts, i) ==
    IF i <= 0 THEN None
    ELSE LET wildcardKey == Key(method, WildcardPath(pathParts, i))
         IN  IF wildcardKey \in DOMAIN cfg
             THEN Some(cfg[wildcardKey])
             ELSE WildcardLookup(cfg, method, pathParts, i - 1)

\* Mutant: the wildcard keys are consulted before the exact key
checkRouteAuthOverride_WildcardFirst(cfg, req) ==
    IF DOMAIN cfg = {} THEN None
    ELSE LET path      == req.path
             method    == ToUpperCase(req.method)
             pathParts == PathParts(path)
             exact     == Lookup(cfg, Key(method, path))
             wild      == WildcardLookup(cfg, method, pathParts, Len(pathParts))
             allExact  == Lookup(cfg, Key("ALL", path))
             allWild   == WildcardLookup(cfg, "ALL", pathParts, Len(pathParts))
         IN  Coalesce(wild, Coalesce(exact, Coalesce(allWild, allExact)))

\* Mutant: the ALL keys are consulted before the keys of the request's method
checkRouteAuthOverride_AllFirst(cfg, req) ==
    IF DOMAIN cfg = {} THEN None
    ELSE LET path      == req.path
             method    == ToUpperCase(req.method)
             pathParts == PathParts(path)
             exact     == Lookup(cfg, Key(method, path))
             wild      == WildcardLookup(cfg, method, pathParts, Len(pathParts))
             allExact  == Lookup(cfg, Key("ALL", path))
             allWild   == WildcardLookup(cfg, "ALL", pathParts, Len(pathParts))
         IN  Coalesce(allExact, Coalesce(allWild, Coalesce(exact, wild)))

\* Some(TRUE): auth required, Some(FALSE): public, None: default behaviour
checkRouteAuthOverride(cfg, req) ==
    IF DOMAIN cfg = {} THEN None
    ELSE LET path      == req.path
             method    == ToUpperCase(req.method)
             pathParts == PathParts(path)
             exact     == Lookup(cfg, Key(method, path))
             wild      == WildcardLookup(cfg, method, pathParts, Len(pathParts))
             allExact  == Lookup(cfg, Key("ALL", path))
             allWild   == WildcardLookup(cfg, "ALL", pathParts, Len(pathParts))
         IN  Coalesce(exact, Coalesce(wild, Coalesce(allExact, allWild)))

----------------------------------------------------------------------------
(* Error mapping: ElysiaServer.handleRouteError *)

\* err.message.toLowerCase().includes('validation')
IncludesValidation(message) ==
    message \in {"Validation failed", "validation error: field is required"}

\* Thrown values: name, status, details.status, message, issues, errors
Err(name, status, detailsStatus, message, issues) ==
    [name |-> name, status |-> status, detailsStatus |-> detailsStatus,
     message |-> message, issues |-> issues, errors |-> None]

\* A handler may also throw (or reject with) null or undefined: a value with
\* no properties at all
Nullish == [nullish |-> TRUE]
IsNullish(err) == "nullish" \in DOMAIN err

\* what a failing schema.parseAsync throws
ZodError == Err("ZodError", None, None, "Invalid input", Some("issues"))

\* Mutant: the error's name is not looked at
isValidationError_NoName(err) ==
    \/ err.status = Some(400)
    \/ err.detailsStatus = Some(400)
    \/ (err.message # "" /\ IncludesValidation(err.message))

isValidationError(err) ==
    \/ err.name = "ZodError"
    \/ err.status = Some(400)
    \/ err.detailsStatus = Some(400)
    \/ (err.message # "" /\ IncludesValidation(err.message))

\* Mutant: details.status is read before status
ErrorStatus_DetailsFirst(err) ==
    Coalesce(err.detailsStatus,
             Coalesce(err.status,
                      Some(IF isValidationError(err) THEN 400 ELSE 500)))[1]

\* err.status ?? err.details?.status ?? (isValidationError ? 400 : 500)
ErrorStatus(err) ==
    Coalesce(err.status,
             Coalesce(err.detailsStatus,
                      Some(IF isValidationError(err) THEN 400 ELSE 500)))[1]

\* Mutant: the 5xx branch echoes the error's message
ErrorBody_EchoesMessage(err) ==
    LET status == ErrorStatus(err)
    IN  IF status = 400 \/ isValidationError(err)
        THEN [error   |-> "VALIDATION_ERROR",
              message |-> IF err.message # "" THEN err.message ELSE "Validation failed",
              details |-> Coalesce(err.issues, err.errors)]
        ELSE IF status >= 500
        THEN [error   |-> "INTERNAL_ERROR", message |-> err.message]
        ELSE [error   |-> "ERROR",
              message |-> IF err.message # "" THEN err.message ELSE "An error occurred"]

\* the body handleRouteError returns (details: undefined is not serialized)
ErrorBody(err) ==
    LET status == ErrorStatus(err)
    IN  IF status = 400 \/ isValidationError(err)
        THEN [error   |-> "VALIDATION_ERROR",
              message |-> IF err.message # "" THEN err.message ELSE "Validation failed",
              details |-> Coalesce(err.issues, err.errors)]
        ELSE IF status >= 500
        THEN [error   |-> "INTERNAL_ERROR",
              message |-> "An unexpected error occurred"]
        ELSE [error   |-> "ERROR",
              message |-> IF err.message # "" THEN err.message ELSE "An error occurred"]

\* context.set.status = status; return body
handleRouteError(err) == [status |-> ErrorStatus(err), body |-> ErrorBody(err)]

----------------------------------------------------------------------------
(* Response multiplexer: ElysiaServer.sendResponse *)

\* Handler results: an object with optional status, body, stream and fullStream
Result(status, body, resultStream, fullStream) ==
    [status |-> status, body |-> body, stream |-> resultStream,
     fullStream |-> fullStream]

\* A handler result with a toResponse method: an object that converts itself
\* into the Response `converted`
Convertible(converted) ==
    [status |-> None, body |-> None, stream |-> FALSE, fullStream |-> FALSE,
     toResponse |-> converted]

\* A handler result that is a Response object: its status and its body, and
\* none of stream, fullStream, toResponse
ResponseObject(status, body) ==
    [status |-> Some(status), body |-> Some(body), stream |-> FALSE,
     fullStream |-> FALSE, response |-> TRUE]

\* result instanceof Response
IsResponse(result) == "response" \in DOMAIN result

\* `return result`: the value returned is the handler's result, a Response
\* object when the handler returned one
Returned(result) ==
    IF IsResponse(result)
    THEN [throws |-> FALSE, isResponse |-> TRUE, status |-> result.status,
          body |-> result.body[1]]
    ELSE [throws |-> FALSE, isResponse |-> FALSE, status |-> None, body |-> result]

\* the value stream() receives as `result`: whether it has a fullStream, and
\* the property of the handler's result that chunk source comes from
StreamResult(hasFullStream, property) ==
    [fullStream |-> hasFullStream, property |-> property]

\* stream(): throws when the result has no fullStream, else a streaming Response
\* with status 200, whose Content-Type follows isSSE and whose body reads the
\* result's fullStream
StreamResponse(rt, streamResult) ==
    IF ~streamResult.fullStream
    THEN [throws |-> TRUE,
          error  |-> Err("Error", None, None,
                         "Stream result must have a fullStream property", None)]
    ELSE [throws |-> FALSE, isResponse |-> TRUE, status |-> Some(200),
          body |-> [stream |-> IF rt.streamFormat = "sse" THEN "sse" ELSE "ndjson",
                    contentType |-> IF rt.streamFormat = "sse"
                                    THEN "text/event-stream" ELSE "text/plain",
                    source |-> streamResult.property]]

\* Mutant: the route is passed on with its declared streamFormat
handleMcpSse_DeclaredFormat(rt, result) ==
    StreamResponse(rt, IF result.stream THEN StreamResult(TRUE, "stream")
                       ELSE StreamResult(result.fullStream, "fullStream"))

\* handleMcpSse: stream() with streamFormat forced to 'sse', on
\* {fullStream: mcpResult.stream} when the result has a stream, else on the
\* result
handleMcpSse(rt, result) ==
    StreamResponse([rt EXCEPT !.streamFormat = "sse"],
                   IF result.stream THEN StreamResult(TRUE, "stream")
                   ELSE StreamResult(result.fullStream, "fullStream"))

\* Mutant: the handler's result is dropped and an empty object returned
sendResponse_ResultDropped(rt, result) ==
    [throws |-> FALSE, isResponse |-> FALSE, status |-> None,
     body |-> [kind |-> "object", value |-> <<>>]]

\* What the call returns and what it writes. isResponse: the value returned is
\* a Response object, which carries its own status and leaves
\* context.set.status alone. Otherwise status is Some(s) when the call writes
\* s to context.set.status (handleMcpHttp) and None when it leaves it as it is.
\* (Response headers are not part of the modelled response; a
\* datastream-response result that is no Response and has a toResponse method
\* is converted by it, any other is returned as it is; handleMcpHttp reads the
\* status and the body of whatever object the handler returned.)
sendResponse(rt, result) ==
    CASE rt.responseType = "stream" ->
           StreamResponse(rt, StreamResult(result.fullStream, "fullStream"))
      [] rt.responseType = "json" ->
           Returned(result)
      [] rt.responseType = "datastream-response" ->
           IF ~IsResponse(result) /\ "toResponse" \in DOMAIN result
           THEN [throws |-> FALSE, isResponse |-> TRUE,
                 status |-> Some(result.toResponse.status),
                 body |-> result.toResponse.body]
           ELSE Returned(result)
      [] rt.responseType = "mcp-http" ->
           [throws |-> FALSE, isResponse |-> FALSE,
            status |-> IF result.status # None /\ result.status # Some(0)
                       THEN result.status ELSE None,
            body   |-> IF result.body # None THEN result.body[1] ELSE result]
      [] rt.responseType = "mcp-sse" ->
           handleMcpSse(rt, result)
      [] OTHER ->
           Returned(result)

----------------------------------------------------------------------------
(* Stream encoder: ElysiaServer.stream *)

\* A chunk of the handler's fullStream: an object whose properties may be
\* undefined (None)
Chunk(type, content, requestData) ==
    [type |-> Some(type), content |-> Some(content), request |-> requestData]

\* the last one carries a BigInt ("1n"), which JSON.stringify rejects
Chunks ==
    { Chunk("text", "a", None),
      Chunk("text", "b", None),
      Chunk("step-start", "c", Some("secret")),
      Chunk("data", "1n", None) }

\* sequences of at most n chunks
RECURSIVE ChunkSeqs(_)
ChunkSeqs(n) ==
    IF n = 0 THEN {<<>>}
    ELSE LET shorter == ChunkSeqs(n - 1)
         IN  shorter \cup {Append(q, c) : q \in {x \in shorter : Len(x) = n - 1},
                                          c \in Chunks}

\* redactStreamChunk: the request carried by a step-start chunk is removed,
\* any other chunk is returned as it is
redactStreamChunk(chunk) ==
    IF chunk.type = Some("step-start")
    THEN [chunk EXCEPT !.request = None]
    ELSE chunk

\* shouldRedact ? redactStreamChunk(value) : value
ProcessedChunk(shouldRedact, chunk) ==
    IF shouldRedact THEN redactStreamChunk(chunk) ELSE chunk

\* JSON.stringify of an object, as a sequence of tokens: the properties in
\* insertion order, those whose value is undefined left out
RECURSIVE JoinProperties(_)
JoinProperties(props) ==
    IF props = <<>> THEN <<>>
    ELSE <<props[1][1], ":", props[1][2][1]>>
         \o (IF Len(props) > 1 THEN <<",">> ELSE <<>>)
         \o JoinProperties(Tail(props))

IsDefined(prop) == prop[2] # None

\* JSON.stringify throws a TypeError on a BigInt value
StringifyThrows(chunk) == chunk.content = Some("1n")

JSONStringify(chunk) ==
    <<"{">>
    \o JoinProperties(SelectSeq(<<<<"type", chunk.type>>,
                                  <<"content", chunk.content>>,
                                  <<"request", chunk.request>>>>, IsDefined))
    \o <<"}">>

\* `data: ${json}\n\n`
SSEFrame(json) == <<"data: ">> \o json \o <<"\n\n">>

\* json + '\x1E'
RecordFrame(json) == json \o <<"0x1E">>

\* 'data: [DONE]\n\n'
DoneFrame == <<"data: ", "[DONE]", "\n\n">>

\* Mutant: the framings are swapped
FormattedChunk_Swapped(isSSE, processedChunk) ==
    IF isSSE THEN RecordFrame(JSONStringify(processedChunk))
    ELSE SSEFrame(JSONStringify(processedChunk))

\* formattedChunk
FormattedChunk(isSSE, processedChunk) ==
    IF isSSE THEN SSEFrame(JSONStringify(processedChunk))
    ELSE RecordFrame(JSONStringify(processedChunk))

\* The chunk source returned by the handler (upstream: the chunks it yields,
\* ending: whether it then closes or fails; pos: chunks read so far; source:
\* its state), the reader's read in flight, and the output stream built by
\* stream() (out: every frame enqueued so far, taken: how many of them the
\* consumer has read, state: "none" until stream() builds it)
SourceStream(redact, upstream, ending) ==
    [redact |-> redact, upstream |-> upstream, ending |-> ending, pos |-> 0,
     source |-> "readable", read |-> None, isSSE |-> FALSE, shouldRedact |-> TRUE,
     out |-> <<>>, taken |-> 0, state |-> "none"]

\* streamOptions.redact as given to the constructor
RedactOptions == {None, Some(TRUE), Some(FALSE)}

\* a request whose handler returns no chunk source of interest
NoStream == SourceStream(None, <<>>, "close")

\* stream(): isSSE, getReader(), shouldRedact = streamOptions?.redact ?? true,
\* new ReadableStream({pull, cancel})
OpenStream(st, isSSE) ==
    [st EXCEPT !.isSSE = isSSE,
               !.shouldRedact = Coalesce(st.redact, Some(TRUE))[1],
               !.state = "readable"]

\* Mutant: the cancel callback does not reach the reader
ReaderCancel_Noop(source) == source

\* reader.cancel(): cancels the source unless it has already ended
ReaderCancel(source) == IF source = "readable" THEN "cancelled" ELSE source

----------------------------------------------------------------------------
(* Lifecycle registered by ElysiaServer.init *)

\* Mutant: the routes are registered before the auth middleware, so the auth
\* hooks do not apply to them
InitHooks_RoutesBeforeAuth(auth, limit) ==
    <<"derive_context">>
    \o (IF limit # None THEN <<"body_limit">> ELSE <<>>)
    \o <<"route_validate">>

\* Mutant: registerAuthMiddleware registers its hooks without looking at the
\* auth configuration
InitHooks_AuthAlways(auth, limit) ==
    <<"derive_context", "derive_auth">>
    \o (IF limit # None THEN <<"body_limit">> ELSE <<>>)
    \o <<"before_handle_auth_error", "before_handle_authorize", "route_validate">>

\* Mutant: the auth middleware is registered before the context middleware
InitHooks_AuthBeforeContext(auth, limit) ==
    (IF auth.present THEN <<"derive_auth">> ELSE <<>>)
    \o <<"derive_context">>
    \o (IF limit # None THEN <<"body_limit">> ELSE <<>>)
    \o (IF auth.present
        THEN <<"before_handle_auth_error", "before_handle_authorize">>
        ELSE <<>>)
    \o <<"route_validate">>

\* init(): body limit middleware (registerBodyLimitMiddleware returns without
\* registering anything when no bodyLimitOptions are configured), context
\* middleware, auth middleware (registerAuthMiddleware returns without
\* registering anything when no auth is configured), then the routes.
\* Hooks apply to the routes registered after them; Elysia runs the derive
\* hooks of a request before its onBeforeHandle hooks, each kind in
\* registration order.
InitHooks(auth, limit) ==
    <<"derive_context">>
    \o (IF auth.present THEN <<"derive_auth">> ELSE <<>>)
    \o (IF limit # None THEN <<"body_limit">> ELSE <<>>)
    \o (IF auth.present
        THEN <<"before_handle_auth_error", "before_handle_authorize">>
        ELSE <<>>)
    \o <<"route_validate">>

\* the hook Elysia runs after hook h when h returned nothing
NextHook(auth, h) ==
    LET hooks == InitHooks(auth, bodyLimit)
        i     == CHOOSE j \in 1..Len(hooks) : hooks[j] = h
    IN  hooks[i + 1]

----------------------------------------------------------------------------
(* State machine of one request *)

\* per external function, the calls made so far: arguments and outcome
NoCalls == [authenticateToken |-> <<>>, authorize |-> <<>>, authorizeUser |-> <<>>,
            handler |-> <<>>]

\* no other request is in flight
NoTasks == <<>>

\* request.signal as the request arrives (transport: whether it is aborted),
\* and the AbortController the context derive will create (created), the
\* abort listener it registers on request.signal (listening), its own signal
\* (aborted) and the number of times that signal went from not aborted to
\* aborted (fired)
ArrivingSignal(transportAborted) ==
    [transport |-> transportAborted, created |-> FALSE, listening |-> FALSE,
     aborted |-> FALSE, fired |-> 0]

\* Mutant: the listener is registered without looking at request.signal.aborted
DeriveSignal_ListenOnly(sig) ==
    [sig EXCEPT !.created = TRUE, !.listening = TRUE]

\* new AbortController(); abort at once when request.signal is already
\* aborted, else listen for its abort event
DeriveSignal(sig) ==
    IF sig.transport
    THEN [sig EXCEPT !.created = TRUE, !.aborted = TRUE, !.fired = sig.fired + 1]
    ELSE [sig EXCEPT !.created = TRUE, !.listening = TRUE]

\* request.signal fires its abort event: the listener, registered with
\* {once: true}, calls abortController.abort()
AbortSignal(sig) ==
    [sig EXCEPT !.transport = TRUE,
                !.listening = FALSE,
                !.aborted = sig.aborted \/ sig.listening,
                !.fired = IF sig.listening /\ ~sig.aborted THEN sig.fired + 1
                          ELSE sig.fired]

\* the request-independent part of Init: the pipeline has not started
Fresh ==
    /\ tasks = NoTasks
    /\ signal = ArrivingSignal(request.signalAborted)
    /\ pc = Head(InitHooks(authConfig, bodyLimit))
    /\ ctx = [derive |-> None, auth |-> None]
    /\ authOverride = None
    /\ setStatus = 200
    /\ response = None
    /\ calls = NoCalls
    /\ trace = <<>>
    /\ handlerOutcome = None

\* bodyLimitOptions: maxSize, and onError as the value it returns for the
\* error it is given
BodyLimitOptions == [maxSize |-> 10, onError |-> [error |-> "Payload too large"]]
\* the configurations and content-length headers of Init: no limit, and a
\* limit with a request above it and a request below it
BodyLimitCases ==
    { [limit |-> None, contentLength |-> None],
      [limit |-> Some(BodyLimitOptions), contentLength |-> Some("100")],
      [limit |-> Some(BodyLimitOptions), contentLength |-> Some("5")] }

Init ==
    /\ \E c \in BodyLimitCases :
         /\ bodyLimit = c.limit
         /\ request \in [method : RequestMethods, path : Paths,
                          authorization : Headers,
                          contentLength : {c.contentLength},
                          signalAborted : {FALSE}, requestContext : {None},
                          urlParams : {NoFields}, queryParams : {NoFields},
                          body : {None}, violates : {{}, {"body"}}]
    /\ routeAuthConfig \in DocumentedMaps
    /\ authConfig \in AuthConfigs
    /\ route \in Routes
    /\ stream = NoStream
    /\ Fresh

\* Mutant: the auth hooks set the status and build the body but do not return
\* it, so Elysia goes on to the next hook
Respond_NotReturned(status, body) ==
    /\ setStatus' = status
    /\ response' = Some([status |-> status, body |-> body])
    /\ pc' = IF pc \in {"before_handle_auth_error", "before_handle_authorize"}
             THEN NextHook(authConfig, pc)
             ELSE "done"

\* a hook or the route handler returned a value: Elysia sends it with set.status
Respond(status, body) ==
    /\ setStatus' = status
    /\ response' = Some([status |-> status, body |-> body])
    /\ pc' = "done"

\* Mutant: a lenient parser reads the map out of a malformed value
ParseRequestContext_Lenient(rcParam) ==
    IF rcParam = None THEN None ELSE Some(rcParam[1].value)

\* JSON.parse of the requestContext query parameter; a malformed value throws,
\* the throw is caught and logged, and the map stays undefined
ParseRequestContext(rcParam) ==
    IF rcParam = None \/ ~rcParam[1].valid THEN None ELSE Some(rcParam[1].value)

\* Mutant: on a key of both sources the value of params is kept
mergeRequestContext_ParamsWin(paramsRequestContext, bodyRequestContext) ==
    LET a == IF paramsRequestContext = None THEN <<>> ELSE paramsRequestContext[1]
        b == IF bodyRequestContext = None THEN <<>> ELSE bodyRequestContext[1]
    IN  [k \in DOMAIN a \cup DOMAIN b |-> IF k \in DOMAIN a THEN a[k] ELSE b[k]]

\* MastraServer.mergeRequestContext: entries of params, then entries of body
mergeRequestContext(paramsRequestContext, bodyRequestContext) ==
    LET a == IF paramsRequestContext = None THEN <<>> ELSE paramsRequestContext[1]
        b == IF bodyRequestContext = None THEN <<>> ELSE bodyRequestContext[1]
    IN  [k \in DOMAIN a \cup DOMAIN b |-> IF k \in DOMAIN b THEN b[k] ELSE a[k]]

\* registerContextMiddleware: app.derive
DeriveContext ==
    /\ pc = "derive_context"
    /\ ctx' = [ctx EXCEPT !.derive =
                 Some([mastra         |-> "mastra",
                       requestContext |-> mergeRequestContext(
                                              ParseRequestContext(request.requestContext),
                                              None),
                       tools          |-> "tools",
                       abortSignal    |-> [aborted |-> signal.transport],
                       taskStore      |-> "taskStore"])]
    /\ signal' = DeriveSignal(signal)
    /\ trace' = Append(trace, "context")
    /\ pc' = NextHook(authConfig, "derive_context")
    /\ UNCHANGED <<tasks, bodyLimit, routeAuthConfig, authConfig, route, request, authOverride,
                   setStatus, response, calls, handlerOutcome, stream>>

\* authHeader?.startsWith('Bearer ') ? authHeader.slice(7) : (authHeader ?? '')
BearerToken(authHeader) ==
    IF authHeader = None THEN <<>>
    ELSE IF Len(authHeader[1]) > 0 /\ Head(authHeader[1]) = "Bearer "
    THEN Tail(authHeader[1])
    ELSE authHeader[1]

\* Mutant: the override test is inverted
SkipAuth_Inverted(override) == override = Some(TRUE)

\* authOverride === false
SkipAuth(override) == override = Some(FALSE)

\* !user, or authenticateToken threw (the catch block)
AuthenticationFailed(outcome) == outcome \in {"null", "throw"}

\* the message of the error authenticateToken throws (None when it returns)
AuthnErrorMessages == {"Invalid token signature", "connect ECONNREFUSED db.internal"}
AuthnThrown(outcome) ==
    IF outcome = "throw" THEN {Some(m) : m \in AuthnErrorMessages} ELSE {None}

\* Mutant: the catch block puts the caught error's message in the marker
AuthFailure_LeaksMessage(thrown) ==
    [user |-> None,
     authError |-> IF thrown = None THEN Some("unauthorized") ELSE thrown]

\* { user: null, authError: 'unauthorized' }, returned for a falsy result and,
\* after the error is logged, from the catch block
AuthFailure(thrown) == [user |-> None, authError |-> Some("unauthorized")]

\* registerAuthMiddleware: app.derive (authentication), up to the point where
\* it returns or awaits authenticateToken; the call is recorded with the
\* outcome "pending" until the promise settles
DeriveAuth ==
    /\ pc = "derive_auth"
    /\ calls.authenticateToken = <<>>
    /\ LET override == checkRouteAuthOverride(routeAuthConfig, request)
       IN
       /\ authOverride' = Some(override)
       /\ IF SkipAuth(override)
          THEN /\ ctx' = [ctx EXCEPT !.auth = Some([user |-> None, authError |-> None])]
               /\ pc' = NextHook(authConfig, "derive_auth")
               /\ UNCHANGED calls
          ELSE IF authConfig.authenticateToken
          THEN /\ calls' = [calls EXCEPT !.authenticateToken =
                               Append(@, [token   |-> BearerToken(request.authorization),
                                          outcome |-> "pending",
                                          thrown  |-> None])]
               /\ UNCHANGED <<ctx, pc>>
          ELSE /\ ctx' = [ctx EXCEPT !.auth = Some([user |-> None, authError |-> None])]
               /\ pc' = NextHook(authConfig, "derive_auth")
               /\ UNCHANGED calls
    /\ trace' = Append(trace, "authenticate")
    /\ UNCHANGED <<tasks, bodyLimit, routeAuthConfig, authConfig, route, request,
                   setStatus, response, handlerOutcome, stream, signal>>

\* the call of provider function f that has not settled yet
PendingCall(f) ==
    calls[f] # <<>> /\ calls[f][Len(calls[f])].outcome = "pending"

\* the calls once the pending call of f has settled with `outcome`
Settled(f, outcome, thrown) ==
    [calls EXCEPT ![f] =
        [i \in DOMAIN calls[f] |->
            IF i = Len(calls[f])
            THEN [k \in DOMAIN calls[f][i] |->
                     IF k = "outcome" THEN outcome
                     ELSE IF k = "thrown" THEN thrown
                     ELSE calls[f][i][k]]
            ELSE calls[f][i]]]

\* the auth derive resumes after `await authConfig.authenticateToken(...)`:
\* a principal, a falsy value, or the catch block
DeriveAuthResume ==
    /\ pc = "derive_auth"
    /\ PendingCall("authenticateToken")
    /\ \E outcome \in AuthnOutcomes : \E thrown \in AuthnThrown(outcome) :
         /\ calls' = Settled("authenticateToken", outcome, thrown)
         /\ IF AuthenticationFailed(outcome)
            THEN /\ setStatus' = 401
                 /\ ctx' = [ctx EXCEPT !.auth = Some(AuthFailure(thrown))]
            ELSE /\ ctx' = [ctx EXCEPT !.auth =
                              Some([user |-> Some(outcome), authError |-> None])]
                 /\ UNCHANGED setStatus
    /\ pc' = NextHook(authConfig, "derive_auth")
    /\ UNCHANGED <<tasks, bodyLimit, routeAuthConfig, authConfig, route, request,
                   authOverride, response, trace, handlerOutcome, stream, signal>>

\* parseInt(contentLength, 10): NaN (None) for a value that does not start
\* with digits
ParseInt(header) ==
    CASE header = "100" -> Some(100)
      [] header = "5"   -> Some(5)
      [] OTHER          -> None

\* contentLength && !Number.isNaN(size) && size > maxSize
ExceedsLimit(contentLength, maxSize) ==
    /\ contentLength # None
    /\ contentLength[1] # ""
    /\ ParseInt(contentLength[1]) # None
    /\ ParseInt(contentLength[1])[1] > maxSize

\* registerBodyLimitMiddleware: app.onBeforeHandle (registered only when
\* bodyLimitOptions are configured)
BeforeHandleBodyLimit ==
    /\ pc = "body_limit"
    /\ IF ExceedsLimit(request.contentLength, bodyLimit[1].maxSize)
       THEN Respond(413, bodyLimit[1].onError)
       ELSE /\ pc' = NextHook(authConfig, "body_limit")
            /\ UNCHANGED <<setStatus, response>>
    /\ UNCHANGED <<tasks, bodyLimit, routeAuthConfig, authConfig, route, request, ctx,
                   authOverride, calls, trace, handlerOutcome, stream, signal>>

\* Mutant: the marker is compared with a string the derive never sets
IsUnauthorized_Mistyped(auth) == auth.authError = Some("unauthorised")

\* ctx.authError === 'unauthorized'
IsUnauthorized(auth) == auth.authError = Some("unauthorized")

\* registerAuthMiddleware: first app.onBeforeHandle (the 401 gate)
BeforeHandleAuthError ==
    /\ pc = "before_handle_auth_error"
    /\ IF IsUnauthorized(ctx.auth[1])
       THEN Respond(401, [error |-> "Unauthorized"])
       ELSE /\ pc' = NextHook(authConfig, "before_handle_auth_error")
            /\ UNCHANGED <<setStatus, response>>
    /\ UNCHANGED <<tasks, bodyLimit, routeAuthConfig, authConfig, route, request, ctx, authOverride,
                   calls, trace, handlerOutcome, stream, signal>>

\* Mutant: the promise is not awaited, so `allowed` is always truthy
Allowed_NotAwaited(outcome) == TRUE

\* Mutant: the catch block logs the error and leaves `allowed` at its initial
\* value true
Allowed_UnlessFalse(outcome) == outcome # "false"

\* allowed = await authorizeFunc(...), or false when it threw
Allowed(outcome) == outcome = "true"

\* Mutant: authorizeUser is tried first
AuthorizeProvider_UserFirst(auth) ==
    IF auth.authorizeUser THEN "authorizeUser" ELSE "authorize"

\* if (authorizeFunc) ... else if (authorizeUserFunc) ...: the provider function
\* the hook calls when at least one is configured
AuthorizeProvider(auth) ==
    IF auth.authorize THEN "authorize" ELSE "authorizeUser"

\* whether the hook awaits what provider function f returned: authorize is
\* always awaited, authorizeUser only when it returned a promise
\* (result instanceof Promise ? await result : result)
Awaited(f) == IF f = "authorize" THEN {TRUE} ELSE BOOLEAN

\* registerAuthMiddleware: second app.onBeforeHandle (authorization), up to
\* the point where it returns or awaits the provider function; an
\* authorizeUser that answers (or throws) synchronously is not awaited and
\* the hook goes on with its answer in the same step
BeforeHandleAuthorize ==
    /\ pc = "before_handle_authorize"
    /\ ~PendingCall("authorize") /\ ~PendingCall("authorizeUser")
    /\ IF IsUnauthorized(ctx.auth[1])
       THEN /\ pc' = NextHook(authConfig, "before_handle_authorize")
            /\ UNCHANGED <<calls, trace, setStatus, response>>
       ELSE IF ~authConfig.authorize /\ ~authConfig.authorizeUser
       THEN /\ pc' = NextHook(authConfig, "before_handle_authorize")
            /\ UNCHANGED <<calls, trace, setStatus, response>>
       ELSE /\ trace' = Append(trace, "authorize")
            /\ \E awaited \in Awaited(AuthorizeProvider(authConfig)) :
                 IF awaited
                 THEN /\ calls' = [calls EXCEPT ![AuthorizeProvider(authConfig)] =
                                      Append(@, [user    |-> ctx.auth[1].user,
                                                 outcome |-> "pending"])]
                      /\ UNCHANGED <<pc, setStatus, response>>
                 ELSE \E outcome \in AuthzOutcomes :
                        /\ calls' = [calls EXCEPT ![AuthorizeProvider(authConfig)] =
                                        Append(@, [user    |-> ctx.auth[1].user,
                                                   outcome |-> outcome])]
                        /\ IF Allowed(outcome)
                           THEN /\ pc' = NextHook(authConfig, "before_handle_authorize")
                                /\ UNCHANGED <<setStatus, response>>
                           ELSE Respond(403, [error |-> "Forbidden"])
    /\ UNCHANGED <<tasks, bodyLimit, routeAuthConfig, authConfig, route, request, ctx,
                   authOverride, handlerOutcome, stream, signal>>

\* the authorization hook resumes after the provider function settled
BeforeHandleAuthorizeResume ==
    /\ pc = "before_handle_authorize"
    /\ PendingCall(AuthorizeProvider(authConfig))
    /\ \E outcome \in AuthzOutcomes :
         /\ calls' = Settled(AuthorizeProvider(authConfig), outcome, None)
         /\ IF Allowed(outcome)
            THEN /\ pc' = NextHook(authConfig, "before_handle_authorize")
                 /\ UNCHANGED <<setStatus, response>>
            ELSE Respond(403, [error |-> "Forbidden"])
    /\ UNCHANGED <<tasks, bodyLimit, routeAuthConfig, authConfig, route, request, ctx,
                   authOverride, trace, handlerOutcome, stream, signal>>

\* what route.handler does with its input: returns a result or throws
HandlerResults ==
    { Result(None, None, FALSE, TRUE),
      Result(Some(403), Some([data |-> "payload"]), FALSE, FALSE),
      Result(None, None, TRUE, FALSE),
      Convertible([status |-> 201, body |-> [text |-> "from toResponse"]]),
      Convertible([status |-> 403, body |-> [text |-> "from toResponse"]]),
      ResponseObject(401, [text |-> "from handler"]) }
HandlerErrors ==
    { Err("Error", None, None, "Database connection failed", None),
      Err("Error", Some(401), None, "Token expired", None),
      Err("Error", Some(403), Some(500), "Not allowed", None),
      Err("Error", None, Some(503), "", None),
      Err("Error", None, None, "Validation failed", None) }
HandlerOutcomes ==
    {[throws |-> FALSE, result |-> r] : r \in HandlerResults}
    \cup {[throws |-> TRUE, error |-> e] : e \in HandlerErrors}

\* the catch block of the route handler: handleRouteError reads err.name
\* first, which throws a TypeError when the caught value is null or undefined;
\* that error leaves the route handler for the framework, with set.status
\* untouched and nothing returned
Catch(err) ==
    IF IsNullish(err)
    THEN /\ pc' = "escaped"
         /\ UNCHANGED <<setStatus, response>>
    ELSE LET r == handleRouteError(err) IN Respond(r.status, r.body)

\* getParams: context.params, context.query (which holds the raw requestContext
\* parameter too) and context.body
ExtractedParams(req) ==
    [urlParams   |-> req.urlParams,
     queryParams |-> Spread(req.queryParams,
                            IF req.requestContext = None THEN NoFields
                            ELSE [requestContext |-> req.requestContext[1]]),
     body        |-> req.body]

\* typeof body === 'object' && body !== null ? body : {}
BodyObject(body) == IF body = None THEN NoFields ELSE body[1]

\* registerRoute handler, step 4: a body with a requestContext property is
\* merged into the derived map
HandlerRequestContext(derived, body) ==
    IF body # None /\ "requestContext" \in DOMAIN body[1]
    THEN mergeRequestContext(Some(derived.requestContext),
                             Some(body[1].requestContext))
    ELSE derived.requestContext

\* Mutant: the principal is not copied into the handler input
ContextFields_NoUser(derived, auth, body) ==
    [mastra         |-> derived.mastra,
     requestContext |-> HandlerRequestContext(derived, body),
     tools          |-> derived.tools,
     abortSignal    |-> derived.abortSignal,
     taskStore      |-> derived.taskStore,
     user           |-> None]

\* derivedContext.mastra, requestContext, tools ?? {}, abortSignal, taskStore,
\* user (undefined when the auth middleware is not registered)
ContextFields(derived, auth, body) ==
    [mastra         |-> derived.mastra,
     requestContext |-> HandlerRequestContext(derived, body),
     tools          |-> derived.tools,
     abortSignal    |-> derived.abortSignal,
     taskStore      |-> derived.taskStore,
     user           |-> IF auth = None THEN None ELSE auth[1].user]

\* Mutant: the context fields are spread first, the client's fields last
HandlerParams_ClientLast(req, context) ==
    LET params == ExtractedParams(req)
    IN  Spread(ContextFields(context.derive[1], context.auth, params.body),
               Spread(Spread(params.urlParams, params.queryParams),
                      BodyObject(params.body)))

\* registerRoute handler, step 5: {...pathParams, ...queryParams, ...body,
\* mastra, requestContext, tools, abortSignal, taskStore, user}
HandlerParams(req, context) ==
    LET params == ExtractedParams(req)
    IN  Spread(Spread(Spread(params.urlParams, params.queryParams),
                      BodyObject(params.body)),
               ContextFields(context.derive[1], context.auth, params.body))

\* the declared schema of `kind` ("path", "query", "body") rejects its input:
\* the promise of parsePathParams / parseQueryParams / parseBody rejects
Rejected(kind) == kind \in route.schemas \cap request.violates

\* registerRoute handler, step 1: Elysia calls the route handler, which calls
\* getParams and awaits its promise
RouteGetParams ==
    /\ pc = "route_validate"
    /\ trace' = Append(trace, "validate")
    /\ pc' = "parse_path_params"
    /\ UNCHANGED <<tasks, bodyLimit, routeAuthConfig, authConfig, route, request, ctx,
                   authOverride, setStatus, response, calls, handlerOutcome, stream,
                   signal>>

\* step 2, after `await this.getParams(...)`: parsePathParams is called and
\* its promise awaited
RouteParsePathParams ==
    /\ pc = "parse_path_params"
    /\ pc' = "parse_query_params"
    /\ UNCHANGED <<tasks, bodyLimit, routeAuthConfig, authConfig, route, request, ctx,
                   authOverride, setStatus, response, calls, trace, handlerOutcome,
                   stream, signal>>

\* after `await this.parsePathParams(...)`: the catch block when it rejected,
\* else parseQueryParams is called and its promise awaited
RouteParseQueryParams ==
    /\ pc = "parse_query_params"
    /\ IF Rejected("path")
       THEN Catch(ZodError)
       ELSE /\ pc' = "parse_body"
            /\ UNCHANGED <<setStatus, response>>
    /\ UNCHANGED <<tasks, bodyLimit, routeAuthConfig, authConfig, route, request, ctx,
                   authOverride, calls, trace, handlerOutcome, stream, signal>>

\* after `await this.parseQueryParams(...)`: the catch block when it rejected,
\* else parseBody is called and its promise awaited
RouteParseBody ==
    /\ pc = "parse_body"
    /\ IF Rejected("query")
       THEN Catch(ZodError)
       ELSE /\ pc' = "route_handler"
            /\ UNCHANGED <<setStatus, response>>
    /\ UNCHANGED <<tasks, bodyLimit, routeAuthConfig, authConfig, route, request, ctx,
                   authOverride, calls, trace, handlerOutcome, stream, signal>>

\* after `await this.parseBody(...)`: the catch block when it rejected, else
\* steps 3-6: build handlerParams and call route.handler, whose promise is
\* awaited
RouteHandler ==
    /\ pc = "route_handler"
    /\ calls.handler = <<>>
    /\ IF Rejected("body")
       THEN /\ Catch(ZodError)
            /\ UNCHANGED <<calls, trace>>
       ELSE /\ trace' = Append(trace, "handler")
            /\ calls' = [calls EXCEPT !.handler =
                            Append(@, HandlerParams(request, ctx))]
            /\ UNCHANGED <<pc, setStatus, response>>
    /\ UNCHANGED <<tasks, bodyLimit, routeAuthConfig, authConfig, route, request,
                   ctx, authOverride, handlerOutcome, stream, signal>>

\* registerRoute handler, step 7: `return this.sendResponse(...)`, for the
\* handler's `result`. The promise of the async sendResponse is returned
\* without being awaited, so when it rejects the catch block of the route
\* handler is not entered: the error leaves the route handler for the
\* framework, with set.status untouched and nothing returned. A Response
\* object is sent with its own status and set.status keeps its value.
RouteSend(result) ==
    /\ trace' = Append(trace, "send")
    /\ LET sent == sendResponse(route, result)
       IN  IF sent.throws
           THEN /\ pc' = "escaped"
                /\ UNCHANGED <<setStatus, response, stream>>
           ELSE /\ IF sent.isResponse
                   THEN /\ response' = Some([status |-> sent.status[1],
                                             body |-> sent.body])
                        /\ pc' = "done"
                        /\ UNCHANGED setStatus
                   ELSE Respond(IF sent.status # None THEN sent.status[1]
                                ELSE setStatus,
                                sent.body)
                /\ stream' = IF route.responseType \in {"stream", "mcp-sse"}
                             THEN OpenStream(stream, sent.body.stream = "sse")
                             ELSE stream

\* the route handler resumes after `await route.handler(handlerParams)`, for a
\* handler whose behaviour is one of `outcomes`: sendResponse is called with
\* what it returned, or the catch block is entered with what it threw
RouteHandlerResumeOn(outcomes) ==
    /\ pc = "route_handler"
    /\ calls.handler # <<>>
    /\ \E outcome \in outcomes :
         /\ handlerOutcome' = Some(outcome)
         /\ IF outcome.throws
            THEN /\ Catch(outcome.error)
                 /\ UNCHANGED <<trace, stream>>
            ELSE RouteSend(outcome.result)
    /\ UNCHANGED <<tasks, bodyLimit, routeAuthConfig, authConfig, route, request, ctx,
                   authOverride, calls, signal>>

RouteHandlerResume == RouteHandlerResumeOn(HandlerOutcomes)

\* the variables of the request pipeline, which the stream steps leave alone
pipelineVars == <<tasks, bodyLimit, routeAuthConfig, authConfig, route, request, pc, ctx,
                  authOverride, setStatus, response, calls, trace, handlerOutcome,
                  signal>>

\* the output stream asks for data (its queue is empty): pull() is called and
\* issues reader.read()
StreamPull ==
    /\ stream.state = "readable"
    /\ stream.read = None
    /\ stream.taken = Len(stream.out)
    /\ stream' = [stream EXCEPT !.read = Some([kind |-> "pending", value |-> None])]
    /\ UNCHANGED pipelineVars

\* the chunk source settles the pending read: the next chunk, done (it closed
\* or was cancelled), or a rejection (it failed)
StreamSettle ==
    /\ stream.read # None
    /\ stream.read[1].kind = "pending"
    /\ stream' =
         IF stream.source \in {"closed", "cancelled"}
         THEN [stream EXCEPT !.read = Some([kind |-> "done", value |-> None])]
         ELSE IF stream.source = "errored"
         THEN [stream EXCEPT !.read = Some([kind |-> "error", value |-> None])]
         ELSE IF stream.pos < Len(stream.upstream)
         THEN [stream EXCEPT !.read = Some([kind  |-> "value",
                                            value |-> Some(stream.upstream[stream.pos + 1])]),
                             !.pos = stream.pos + 1]
         ELSE IF stream.ending = "close"
         THEN [stream EXCEPT !.read = Some([kind |-> "done", value |-> None]),
                             !.source = "closed"]
         ELSE [stream EXCEPT !.read = Some([kind |-> "error", value |-> None]),
                             !.source = "errored"]
    /\ UNCHANGED pipelineVars

\* pull() is in its catch block and waits for reader.cancel() to settle
Cancelling == Some([kind |-> "cancelling", value |-> None])

\* Mutant: the catch block goes on to error the output without cancelling the
\* reader
PullCatch_NoCancel(st) == [st EXCEPT !.read = Cancelling]

\* the catch block of pull(), up to `await reader.cancel()`: the error is
\* logged and the reader cancelled; the output stream is untouched until the
\* promise of reader.cancel() has settled
PullCatch(st) ==
    [st EXCEPT !.read = Cancelling, !.source = ReaderCancel(st.source)]

\* the catch block of pull() after `await reader.cancel()`:
\* controller.error(error), which does nothing on a stream that is no longer
\* readable; when reader.cancel() rejected (the source has failed) pull()
\* rejects instead, on which the output stream is errored all the same
PullCatchResume(st) ==
    [st EXCEPT !.read = None,
               !.state = IF st.state = "readable" THEN "errored" ELSE st.state]

\* Mutant: the completion marker is enqueued for both framings
PullDone_AlwaysMarker(st) ==
    IF st.state # "readable" THEN PullCatch(st)
    ELSE [st EXCEPT !.read = None,
                    !.out = Append(st.out, DoneFrame),
                    !.state = "closed"]

\* pull() after reader.read() returned done: the completion marker for SSE,
\* then controller.close(); both throw on a stream that is no longer readable
PullDone(st) ==
    IF st.state # "readable" THEN PullCatch(st)
    ELSE [st EXCEPT !.read = None,
                    !.out = IF st.isSSE THEN Append(st.out, DoneFrame) ELSE st.out,
                    !.state = "closed"]

\* Mutant: the chunk is enqueued twice
PullValue_Twice(st, value) ==
    LET frame == FormattedChunk(st.isSSE, ProcessedChunk(st.shouldRedact, value))
    IN  IF StringifyThrows(ProcessedChunk(st.shouldRedact, value))
           \/ st.state # "readable"
        THEN PullCatch(st)
        ELSE [st EXCEPT !.read = None, !.out = st.out \o <<frame, frame>>]

\* pull() after reader.read() returned a chunk: redact, format, enqueue;
\* JSON.stringify throws on a chunk it cannot serialize and enqueue throws on
\* a stream that is no longer readable
PullValue(st, value) ==
    IF StringifyThrows(ProcessedChunk(st.shouldRedact, value))
       \/ st.state # "readable"
    THEN PullCatch(st)
    ELSE [st EXCEPT !.read = None,
                    !.out = Append(st.out,
                                   FormattedChunk(st.isSSE,
                                       ProcessedChunk(st.shouldRedact, value)))]

\* pull() resumes after `await reader.read()` and runs to its end or, when
\* the read or a later statement threw, to the await of its catch block
StreamResume ==
    /\ stream.read # None
    /\ stream.read[1].kind \in {"done", "value", "error"}
    /\ stream' = CASE stream.read[1].kind = "done"  -> PullDone(stream)
                   [] stream.read[1].kind = "value" ->
                        PullValue(stream, stream.read[1].value[1])
                   [] stream.read[1].kind = "error" -> PullCatch(stream)
    /\ UNCHANGED pipelineVars

\* pull() resumes after `await reader.cancel()` in its catch block
StreamCatchResume ==
    /\ stream.read = Cancelling
    /\ stream' = PullCatchResume(stream)
    /\ UNCHANGED pipelineVars

\* the consumer of the response body reads the next queued frame
ConsumerRead ==
    /\ stream.state \in {"readable", "closed"}
    /\ stream.taken < Len(stream.out)
    /\ stream' = [stream EXCEPT !.taken = stream.taken + 1]
    /\ UNCHANGED pipelineVars

\* the consumer can still cancel the output stream: it is readable, or
\* controller.close() was called and frames enqueued before it are still
\* queued (the stream closes only once they have been read)
Cancellable(st) ==
    \/ st.state = "readable"
    \/ st.state = "closed" /\ st.taken < Len(st.out)

\* Mutant: the cancel callback of the output stream is empty
StreamCancel_LeavesSource ==
    /\ Cancellable(stream)
    /\ stream' = [stream EXCEPT !.state = "cancelled"]
    /\ UNCHANGED pipelineVars

\* the consumer cancels the response body: the queue is dropped and cancel()
\* calls reader.cancel()
StreamCancel ==
    /\ Cancellable(stream)
    /\ stream' = [stream EXCEPT !.state = "cancelled",
                                !.source = ReaderCancel(stream.source)]
    /\ UNCHANGED pipelineVars

\* the transport aborts request.signal (the client went away); the abort
\* event is dispatched to the listener within the same step
TransportAbort ==
    /\ ~signal.transport
    /\ signal' = AbortSignal(signal)
    /\ ctx' = IF ctx.derive = None THEN ctx
              ELSE [ctx EXCEPT !.derive[1].abortSignal = [aborted |-> signal'.aborted]]
    /\ calls' = [calls EXCEPT !.handler =
                    [i \in DOMAIN @ |->
                        [@[i] EXCEPT !.abortSignal = [aborted |-> signal'.aborted]]]]
    /\ UNCHANGED <<tasks, bodyLimit, routeAuthConfig, authConfig, route, request, pc,
                   authOverride, setStatus, response, trace, handlerOutcome, stream>>

Next ==
    \/ DeriveContext
    \/ DeriveAuth
    \/ DeriveAuthResume
    \/ BeforeHandleBodyLimit
    \/ BeforeHandleAuthError
    \/ BeforeHandleAuthorize
    \/ BeforeHandleAuthorizeResume
    \/ RouteGetParams
    \/ RouteParsePathParams
    \/ RouteParseQueryParams
    \/ RouteParseBody
    \/ RouteHandler
    \/ RouteHandlerResume

Spec == Init /\ [][Next]_vars

----------------------------------------------------------------------------
(* The parameter pipeline on every combination of declared schemas and       *)
(* rejected inputs: one json route, any auth provider, no override, with or  *)
(* without a body-size limit, a content-length under or over it.             *)

SchemaKinds == {"path", "query", "body"}

InitValidation ==
    /\ bodyLimit \in {None, Some(BodyLimitOptions)}
    /\ routeAuthConfig = [k \in {} |-> TRUE]
    /\ authConfig \in AuthConfigs
    /\ route \in [responseType : {"json"}, streamFormat : {"sse"},
                  schemas : SUBSET SchemaKinds]
    /\ request \in [method : {"POST"}, path : {<<"public">>},
                     authorization : Headers, contentLength : {Some("5"), Some("100")},
                     signalAborted : {FALSE},
                     requestContext : {None}, urlParams : {NoFields},
                     queryParams : {NoFields}, body : {None}, violates : SUBSET SchemaKinds]
    /\ stream = NoStream
    /\ Fresh

SpecValidation == InitValidation /\ [][Next]_vars

----------------------------------------------------------------------------
(* The error mapper on every thrown error of a bounded domain: a route with  *)
(* no auth provider whose handler throws.                                    *)

ErrorNames == {"Error", "ZodError"}
ErrorStatuses == {None, Some(200), Some(400), Some(401), Some(404), Some(403),
                  Some(500), Some(503)}
ErrorDetailsStatuses == {None, Some(400), Some(403), Some(500)}
ErrorMessages == {"", "Database connection failed", "Invalid input",
                  "Validation failed", "validation error: field is required"}
ErrorIssues == {None, Some("issues")}

ThrownErrors ==
    {Err(name, status, detailsStatus, message, issues) :
        name \in ErrorNames, status \in ErrorStatuses,
        detailsStatus \in ErrorDetailsStatuses, message \in ErrorMessages,
        issues \in ErrorIssues}

ThrowingOutcomes == {[throws |-> TRUE, error |-> e] : e \in ThrownErrors}

InitError ==
    /\ bodyLimit = None
    /\ routeAuthConfig = [k \in {} |-> TRUE]
    /\ authConfig = [present |-> FALSE, authenticateToken |-> FALSE,
                     authorize |-> FALSE, authorizeUser |-> FALSE]
    /\ route \in [responseType : ResponseTypes, streamFormat : {"sse"},
                  schemas : {{}}]
    /\ request \in [method : {"GET"}, path : {<<"public">>},
                     authorization : {None}, contentLength : {None}, signalAborted : {FALSE},
                     requestContext : {None}, urlParams : {NoFields},
                     queryParams : {NoFields}, body : {None}, violates : {{}}]
    /\ stream = NoStream
    /\ Fresh

NextError ==
    \/ DeriveContext
    \/ RouteGetParams
    \/ RouteParsePathParams
    \/ RouteParseQueryParams
    \/ RouteParseBody
    \/ RouteHandler
    \/ RouteHandlerResumeOn(ThrowingOutcomes)

SpecError == InitError /\ [][NextError]_vars

----------------------------------------------------------------------------
(* Every error path of the pipeline: any auth provider, a json route with or *)
(* without a body schema, and a handler that returns, throws an error or     *)
(* throws a null/undefined value.                                            *)

ThrownValues == HandlerErrors \cup {Nullish}

ThrowOutcomes ==
    {[throws |-> FALSE, result |-> r] : r \in HandlerResults}
    \cup {[throws |-> TRUE, error |-> e] : e \in ThrownValues}

InitThrow ==
    /\ bodyLimit = None
    /\ routeAuthConfig = [k \in {} |-> TRUE]
    /\ authConfig \in AuthConfigs
    /\ route \in [responseType : {"json", "stream"}, streamFormat : {"sse"},
                  schemas : {{}, {"body"}}]
    /\ request \in [method : {"POST"}, path : {<<"public">>},
                     authorization : Headers, contentLength : {None}, signalAborted : {FALSE},
                     requestContext : {None}, urlParams : {NoFields},
                     queryParams : {NoFields}, body : {None}, violates : {{}, {"body"}}]
    /\ stream = NoStream
    /\ Fresh

NextThrow ==
    \/ DeriveContext
    \/ DeriveAuth
    \/ DeriveAuthResume
    \/ BeforeHandleAuthError
    \/ BeforeHandleAuthorize
    \/ BeforeHandleAuthorizeResume
    \/ RouteGetParams
    \/ RouteParsePathParams
    \/ RouteParseQueryParams
    \/ RouteParseBody
    \/ RouteHandler
    \/ RouteHandlerResumeOn(ThrowOutcomes)

SpecThrow == InitThrow /\ [][NextThrow]_vars

----------------------------------------------------------------------------
(* The stream encoder on every chunk source of at most MaxChunks chunks: a   *)
(* streaming route with no auth provider, a handler that returns the chunk   *)
(* source, and a consumer that reads the response body or cancels it.        *)

StreamRoutes ==
    { [responseType |-> "stream", streamFormat |-> "sse", schemas |-> {}],
      [responseType |-> "stream", streamFormat |-> "ndjson", schemas |-> {}],
      [responseType |-> "mcp-sse", streamFormat |-> "ndjson", schemas |-> {}] }

\* the handler returns {fullStream}, {stream} or both
StreamOutcomes ==
    { [throws |-> FALSE, result |-> Result(None, None, FALSE, TRUE)],
      [throws |-> FALSE, result |-> Result(None, None, TRUE, FALSE)],
      [throws |-> FALSE, result |-> Result(None, None, TRUE, TRUE)] }

InitStream ==
    /\ bodyLimit = None
    /\ routeAuthConfig = [k \in {} |-> TRUE]
    /\ authConfig = [present |-> FALSE, authenticateToken |-> FALSE,
                     authorize |-> FALSE, authorizeUser |-> FALSE]
    /\ route \in StreamRoutes
    /\ request \in [method : {"GET"}, path : {<<"public">>},
                     authorization : {None}, contentLength : {None}, signalAborted : {FALSE},
                     requestContext : {None}, urlParams : {NoFields},
                     queryParams : {NoFields}, body : {None}, violates : {{}}]
    /\ stream \in {SourceStream(redact, upstream, ending) :
                       redact \in RedactOptions,
                       upstream \in ChunkSeqs(MaxChunks),
                       ending \in {"close", "error"}}
    /\ Fresh

NextStream ==
    \/ DeriveContext
    \/ RouteGetParams
    \/ RouteParsePathParams
    \/ RouteParseQueryParams
    \/ RouteParseBody
    \/ RouteHandler
    \/ RouteHandlerResumeOn(StreamOutcomes)
    \/ StreamPull
    \/ StreamSettle
    \/ StreamResume
    \/ StreamCatchResume
    \/ ConsumerRead
    \/ StreamCancel

SpecStream == InitStream /\ [][NextStream]_vars

----------------------------------------------------------------------------
(* Cancellation: the streaming pipeline of SpecStream for a request whose    *)
(* signal is aborted on arrival or is aborted by the transport at any later  *)
(* moment.                                                                   *)

InitAbort ==
    /\ bodyLimit = None
    /\ routeAuthConfig = [k \in {} |-> TRUE]
    /\ authConfig = [present |-> FALSE, authenticateToken |-> FALSE,
                     authorize |-> FALSE, authorizeUser |-> FALSE]
    /\ route \in StreamRoutes
    /\ request \in [method : {"GET"}, path : {<<"public">>},
                     authorization : {None}, contentLength : {None}, signalAborted : BOOLEAN,
                     requestContext : {None}, urlParams : {NoFields},
                     queryParams : {NoFields}, body : {None}, violates : {{}}]
    /\ stream \in {SourceStream(Some(FALSE), upstream, ending) :
                       upstream \in ChunkSeqs(MaxChunks),
                       ending \in {"close", "error"}}
    /\ Fresh

NextAbort ==
    \/ NextStream
    \/ TransportAbort

SpecAbort == InitAbort /\ [][NextAbort]_vars

----------------------------------------------------------------------------
(* The Route Auth Resolver on every bounded override map: the request has    *)
(* passed the context derive and the auth derive runs; the provider has no   *)
(* authenticateToken, so the derive only resolves the override.              *)

ResolverAuthConfig ==
    [present |-> TRUE, authenticateToken |-> FALSE,
     authorize |-> TRUE, authorizeUser |-> FALSE]

InitResolver ==
    /\ bodyLimit = None
    /\ routeAuthConfig \in OverrideMaps
    /\ authConfig = ResolverAuthConfig
    /\ route = [responseType |-> "json", streamFormat |-> "sse", schemas |-> {}]
    /\ request \in [method : RequestMethods, path : Paths, authorization : {None},
                     contentLength : {None}, signalAborted : {FALSE}, requestContext : {None}, urlParams : {NoFields},
                     queryParams : {NoFields}, body : {None},
                     violates : {{}}]
    /\ pc = "derive_auth"
    /\ ctx = [derive |-> Some([mastra         |-> "mastra",
                               requestContext |-> mergeRequestContext(None, None),
                               tools          |-> "tools",
                               abortSignal    |-> [aborted |-> FALSE],
                               taskStore      |-> "taskStore"]),
              auth |-> None]
    /\ authOverride = None
    /\ setStatus = 200
    /\ response = None
    /\ calls = NoCalls
    /\ trace = <<"context">>
    /\ handlerOutcome = None
    /\ stream = NoStream
    /\ tasks = NoTasks
    /\ signal = DeriveSignal(ArrivingSignal(FALSE))

NextResolver == DeriveAuth

SpecResolver == InitResolver /\ [][NextResolver]_vars

----------------------------------------------------------------------------
(* Properties of the auth enforcer (checked under Spec) *)

Last(seq) == seq[Len(seq)]
HandlerCalled == calls.handler # <<>>
AuthorizationCalled == calls.authorize # <<>> \/ calls.authorizeUser # <<>>
Responded(status, body) == response = Some([status |-> status, body |-> body])
\* a body-size limit is configured and the request's content-length exceeds
\* it: the body-limit hook answers 413 with the value of onError
BodyLimitExceeded ==
    bodyLimit # None /\ ExceedsLimit(request.contentLength, bodyLimit[1].maxSize)
PayloadTooLarge == Responded(413, bodyLimit[1].onError)

\* authenticateToken was called for this request and returned a falsy value
\* or threw
AuthenticationRejected ==
    /\ calls.authenticateToken # <<>>
    /\ Last(calls.authenticateToken).outcome \in {"null", "throw"}

\* C1 (amended): with an auth provider configured and the route not
\* overridden to not-required, once authenticateToken has returned a falsy
\* value or thrown, neither authorize, authorizeUser nor the route handler is
\* ever called, and the request is answered 401 {error: "Unauthorized"} by the
\* 401 gate, unless a body-size limit is configured and the content-length
\* exceeds it: the body-limit hook runs before the 401 gate and then answers
\* 413 with the value of onError.
C1_FailedAuthenticationIs401UnlessTooLarge ==
    (authConfig.present /\ AuthenticationRejected) =>
        /\ authOverride # Some(Some(FALSE))
        /\ pc \in {"body_limit", "before_handle_auth_error", "done"}
        /\ pc = "done" => IF BodyLimitExceeded THEN PayloadTooLarge
                          ELSE Responded(401, [error |-> "Unauthorized"])
        /\ pc = "before_handle_auth_error" => ~BodyLimitExceeded
        /\ ~AuthorizationCalled
        /\ ~HandlerCalled
        /\ \A i \in 1..Len(trace) : trace[i] \in {"context", "authenticate"}

\* C1 as stated: with an auth provider configured and the route not
\* overridden to not-required, once authenticateToken has returned a falsy
\* value or thrown, the request is answered 401 {error: "Unauthorized"}, and
\* neither authorize, authorizeUser nor the route handler is ever called.
C1_FailedAuthenticationIs401 ==
    (authConfig.present /\ AuthenticationRejected) =>
        /\ authOverride # Some(Some(FALSE))
        /\ pc \in {"body_limit", "before_handle_auth_error", "done"}
        /\ pc = "done" => Responded(401, [error |-> "Unauthorized"])
        /\ ~AuthorizationCalled
        /\ ~HandlerCalled
        /\ \A i \in 1..Len(trace) : trace[i] \in {"context", "authenticate"}

C1_Witness ==
    /\ authConfig.present /\ authConfig.authorize
    /\ calls.authenticateToken # <<>>
    /\ Last(calls.authenticateToken).outcome = "throw"
    /\ Responded(401, [error |-> "Unauthorized"])

\* the authorization calls, by whichever function was configured
AuthorizationCalls == calls.authorize \o calls.authorizeUser

\* C2: when authentication succeeded (a principal is attached) and the
\* authorization function returns false, the request is answered
\* 403 {error: "Forbidden"} and the route handler is not called.
C2_DeniedAuthorizationIs403 ==
    (/\ ctx.auth # None
     /\ ctx.auth[1].user # None
     /\ AuthorizationCalls # <<>>
     /\ Last(AuthorizationCalls).outcome = "false") =>
        /\ pc = "done"
        /\ Responded(403, [error |-> "Forbidden"])
        /\ ~HandlerCalled
        /\ \A i \in 1..Len(trace) : trace[i] \in {"context", "authenticate", "authorize"}

C2_Witness ==
    /\ ctx.auth # None
    /\ ctx.auth[1].user = Some("alice")
    /\ calls.authorizeUser # <<>>
    /\ Last(calls.authorizeUser).outcome = "false"
    /\ Responded(403, [error |-> "Forbidden"])

\* C3: for a request the resolver resolves to not-required, neither authorize
\* nor authorizeUser is called, no 403 Forbidden is emitted and the request
\* reaches the route handler.
C3_OverrideSkipsAuthorization ==
    authOverride = Some(Some(FALSE)) =>
        /\ ~AuthorizationCalled
        /\ ~Responded(403, [error |-> "Forbidden"])
        /\ pc = "done" => HandlerCalled \/ route.schemas \cap request.violates # {}

\* C4: for a request the resolver resolves to not-required, authenticateToken
\* is never called, the auth-failure marker stays null, the gate emits no
\* 401 (the status is untouched until the route handler runs and the
\* Unauthorized response is never sent), and the principal stays absent even
\* when the request carries a credential.
C4_OverrideSkipsAuthentication ==
    authOverride = Some(Some(FALSE)) =>
        /\ calls.authenticateToken = <<>>
        /\ ctx.auth = Some([user |-> None, authError |-> None])
        /\ ~HandlerCalled => setStatus # 401
        /\ ~Responded(401, [error |-> "Unauthorized"])
        /\ \A i \in 1..Len(calls.handler) : calls.handler[i].user = None
        /\ \A i \in 1..Len(AuthorizationCalls) : AuthorizationCalls[i].user = None

C4_Witness ==
    /\ authOverride = Some(Some(FALSE))
    /\ authConfig.authenticateToken
    /\ request.authorization = Some(<<"Bearer ", "tok">>)
    /\ HandlerCalled
    /\ calls.handler[1].user = None
    /\ pc = "done"

\* the final status of the response, once sent
ResponseStatus == response[1].status

\* C5 as stated: with no auth provider configured no request ever receives
\* status 401 or 403, whatever the handler does.
C5_NoProviderNever401Or403 ==
    (~authConfig.present /\ response # None) => ResponseStatus \notin {401, 403}

\* the handler itself produced the status: it threw an error that maps to it,
\* it returned an mcp-http result carrying it, it returned a Response object
\* with that status on a route that passes the result on, or its
\* datastream-response result converted itself into a Response with it
HandlerProducedStatus(status) ==
    /\ HandlerCalled
    /\ handlerOutcome # None
    /\ \/ handlerOutcome[1].throws /\ ErrorStatus(handlerOutcome[1].error) = status
       \/ /\ ~handlerOutcome[1].throws
          /\ route.responseType = "mcp-http"
          /\ handlerOutcome[1].result.status = Some(status)
       \/ /\ ~handlerOutcome[1].throws
          /\ route.responseType \in {"json", "datastream-response"}
          /\ IsResponse(handlerOutcome[1].result)
          /\ handlerOutcome[1].result.status = Some(status)
       \/ /\ ~handlerOutcome[1].throws
          /\ route.responseType = "datastream-response"
          /\ ~IsResponse(handlerOutcome[1].result)
          /\ "toResponse" \in DOMAIN handlerOutcome[1].result
          /\ handlerOutcome[1].result.toResponse.status = status

\* C5 (amended): with no auth provider configured the enforcer is inert: no
\* auth hook runs, no provider function is called, every request that the
\* body-size limit does not reject reaches the parameter stage, and a response
\* with status 401 or 403 is only ever the handler's own (a thrown error's
\* status, an mcp-http result's status, or the status of a Response the
\* handler returned or its result converted itself into), never the
\* enforcer's Unauthorized / Forbidden.
C5_NoProviderEnforcerInert ==
    ~authConfig.present =>
        /\ ctx.auth = None
        /\ authOverride = None
        /\ calls.authenticateToken = <<>>
        /\ ~AuthorizationCalled
        /\ \A i \in 1..Len(trace) : trace[i] \notin {"authenticate", "authorize"}
        /\ pc = "done" => IF BodyLimitExceeded THEN PayloadTooLarge
                          ELSE Len(trace) >= 2 /\ trace[2] = "validate"
        /\ (response # None /\ ResponseStatus \in {401, 403}) =>
              /\ HandlerProducedStatus(ResponseStatus)
              /\ response[1].body \notin {[error |-> "Unauthorized"], [error |-> "Forbidden"]}

C5_Witness ==
    /\ ~authConfig.present
    /\ response # None
    /\ ResponseStatus = 401
    /\ handlerOutcome[1].throws

\* C6: a request matching an override key whose value is true has its route
\* handler called only after authentication succeeded for that request, even
\* if no auth is configured globally.
C6_RequiredOverrideAlwaysAuthenticates ==
    (checkRouteAuthOverride(routeAuthConfig, request) = Some(TRUE) /\ HandlerCalled) =>
        /\ calls.authenticateToken # <<>>
        /\ Last(calls.authenticateToken).outcome \notin {"pending", "null", "throw"}
        /\ ctx.auth # None
        /\ ctx.auth[1].user # None

\* the stages of one request, in pipeline order
StageRank(stage) ==
    CASE stage = "context" -> 1
      [] stage = "authenticate" -> 2
      [] stage = "authorize" -> 3
      [] stage = "validate" -> 4
      [] stage = "handler" -> 5
      [] stage = "send" -> 6

Entered(stage) == \E i \in 1..Len(trace) : trace[i] = stage

\* C10: within one request the stages are entered strictly in the order
\* context-derivation, auth (authenticate, then authorize), parameter
\* validation, handler, response-send, each at most once, and a stage is
\* entered only once the previous one has passed: with auth configured the
\* parameters are validated only after authentication left no failure marker
\* and the configured authorization function allowed the request; the
\* handler runs only after validation passed; the response is sent only
\* after the handler returned.
C10_StagesInOrder ==
    /\ \A i, j \in 1..Len(trace) : i < j => StageRank(trace[i]) < StageRank(trace[j])
    /\ trace # <<>> => trace[1] = "context" /\ ctx.derive # None
    /\ (Entered("validate") /\ authConfig.present) =>
          /\ Entered("authenticate")
          /\ ctx.auth # None
          /\ ctx.auth[1].authError = None
          /\ (authConfig.authorize \/ authConfig.authorizeUser) =>
                /\ Entered("authorize")
                /\ Last(AuthorizationCalls).outcome = "true"
    /\ Entered("handler") =>
          Entered("validate") /\ route.schemas \cap request.violates = {}
    /\ Entered("send") =>
          Entered("handler") /\ handlerOutcome # None /\ ~handlerOutcome[1].throws
    /\ response # None => pc = "done"

C10_Witness ==
    /\ pc = "done"
    /\ trace = <<"context", "authenticate", "authorize", "validate", "handler", "send">>
    /\ ResponseStatus = 200

----------------------------------------------------------------------------
(* Properties of the Route Auth Resolver (checked under SpecResolver) *)

\* the resolver has run for this request; Resolved is what it returned
HasResolved == authOverride # None
Resolved == authOverride[1]

RequestParts == PathParts(request.path)
ExactKey == Key(request.method, request.path)

\* key k of the map applies to the request: its method token is the request's
\* method or ALL, and its path is the request's path or "<prefix>/*" for a
\* non-empty prefix of the request's segments
PathMatches(k) ==
    \/ k.p = request.path
    \/ \E i \in 1..Len(RequestParts) : k.p = WildcardPath(RequestParts, i)
Matches(k) == k.m \in {request.method, "ALL"} /\ PathMatches(k)
Matching == {k \in DOMAIN routeAuthConfig : Matches(k)}

\* path specificity: an exact path above every wildcard, a wildcard by the
\* length of its prefix
Specificity(k) == IF k.p = request.path THEN Len(RequestParts) + 1 ELSE Len(k.p) - 1

WildcardScenario ==
    [k \in {[m |-> "ALL", p |-> <<"admin", "*">>],
            [m |-> "GET", p |-> <<"admin", "public">>]} |-> (k.m = "ALL")]

\* C7: if the map holds the exact key METHOD:PATH of the request, the resolver
\* returns that key's value whatever wildcard or ALL rule also matches; with
\* {ALL:/admin/*: true, GET:/admin/public: false}, GET /admin/public is
\* public and GET /admin/admin requires auth.
C7_ExactKeyDecides ==
    HasResolved =>
        /\ ExactKey \in DOMAIN routeAuthConfig =>
              Resolved = Some(routeAuthConfig[ExactKey])
        /\ (routeAuthConfig = WildcardScenario /\ request.method = "GET") =>
              /\ request.path = <<"admin", "public">> => Resolved = Some(FALSE)
              /\ request.path = <<"admin", "admin">> => Resolved = Some(TRUE)

C7_Witness ==
    /\ HasResolved
    /\ ExactKey \in DOMAIN routeAuthConfig
    /\ \E k \in Matching : k.p # request.path /\ routeAuthConfig[k] # routeAuthConfig[ExactKey]
    /\ Resolved = Some(routeAuthConfig[ExactKey])

\* C8 as stated: whenever several keys match, the key with the most specific
\* path decides, whatever the method token of either key.
C8_MostSpecificPathDecides ==
    HasResolved =>
        \A k \in Matching :
            (\A k2 \in Matching \ {k} : Specificity(k) > Specificity(k2)) =>
                Resolved = Some(routeAuthConfig[k])

\* C8 (amended): whenever two matching keys use the same method token, the
\* one with the more specific path decides between them (exact path over
\* wildcard, longer wildcard prefix over shorter); a key with the request's
\* concrete method decides over every ALL key, whatever their paths. So the
\* key that decides is the most specific among the concrete-method keys that
\* match, and only when there is none the most specific among the ALL keys.
Precedes(k, k2) ==
    \/ k.m # "ALL" /\ k2.m = "ALL"
    \/ k.m = k2.m /\ Specificity(k) > Specificity(k2)

C8_MostSpecificWithinMethodDecides ==
    HasResolved =>
        \A k \in Matching :
            (\A k2 \in Matching \ {k} : Precedes(k, k2)) =>
                Resolved = Some(routeAuthConfig[k])

C8_Witness ==
    /\ HasResolved
    /\ \E k, k2 \in Matching :
          /\ k.m = k2.m
          /\ k.p # request.path
          /\ Specificity(k) > Specificity(k2)
          /\ routeAuthConfig[k] # routeAuthConfig[k2]
          /\ Resolved = Some(routeAuthConfig[k])

\* C9: whenever a key with the request's concrete method and a key with the
\* ALL token both match, the value returned is a concrete-method key's: the
\* value of the concrete key when only one matches.
ConcreteMatching == {k \in Matching : k.m = request.method}
AllMatching == {k \in Matching : k.m = "ALL"}

C9_ConcreteMethodBeforeAll ==
    (HasResolved /\ ConcreteMatching # {} /\ AllMatching # {}) =>
        /\ \E k \in ConcreteMatching : Resolved = Some(routeAuthConfig[k])
        /\ \A k \in ConcreteMatching :
              ConcreteMatching = {k} => Resolved = Some(routeAuthConfig[k])

C9_Witness ==
    /\ HasResolved
    /\ \E k \in ConcreteMatching, ka \in AllMatching :
          /\ ConcreteMatching = {k}
          /\ Specificity(ka) > Specificity(k)
          /\ routeAuthConfig[ka] # routeAuthConfig[k]
          /\ Resolved = Some(routeAuthConfig[k])

----------------------------------------------------------------------------
(* Properties of the whole pipeline (checked under Spec) *)

\* C11: a request gets at most one response and its route handler is called
\* at most once: once a response has been produced (a 401, 403 or 400
\* short-circuit, an error response or the handler's own), no later step
\* produces another response, changes the status or calls anything.
C11_AtMostOneResponse ==
    [][/\ response # None =>
            /\ response' = response
            /\ setStatus' = setStatus
            /\ calls' = calls
       /\ Len(calls'.handler) <= 1]_vars

C11_Witness ==
    /\ pc = "done"
    /\ authConfig.present
    /\ handlerOutcome # None
    /\ handlerOutcome[1].throws
    /\ response # None
    /\ response[1].body.error = "INTERNAL_ERROR"
    /\ Len(calls.handler) = 1

----------------------------------------------------------------------------
(* Properties of the parameter pipeline (checked under SpecValidation) *)

\* the request's path, query or body violates a schema the route declares
ViolatesDeclaredSchema == route.schemas \cap request.violates # {}

ValidationErrorBody ==
    [error |-> "VALIDATION_ERROR", message |-> ZodError.message,
     details |-> ZodError.issues]

\* C12 as stated: every finished request whose path, query or body violates
\* a schema its route declares has status 400, body error VALIDATION_ERROR
\* with a message, and the route handler was not invoked.
C12_SchemaViolationIs400 ==
    (pc = "done" /\ ViolatesDeclaredSchema) =>
        /\ ResponseStatus = 400
        /\ response[1].body.error = "VALIDATION_ERROR"
        /\ response[1].body.message # ""
        /\ ~HandlerCalled

\* the parameter stage is under way: the route handler awaits getParams or
\* one of the parse methods
Validating ==
    \/ pc \in {"parse_path_params", "parse_query_params", "parse_body"}
    \/ pc = "route_handler" /\ ~HandlerCalled

\* C12 (amended): the route handler is never invoked for a request that
\* violates a declared schema, and once such a request has passed the
\* body-size limit and the auth enforcer and entered the parameter stage, that
\* stage ends with the answer 400, body error VALIDATION_ERROR, the schema
\* engine's message and its issue list; a request rejected before that stage
\* is answered 413 with the value of onError when a configured body-size
\* limit is exceeded, and otherwise 401 or 403 by the enforcer of a
\* configured auth provider.
C12_SchemaViolationAtParameterStageIs400 ==
    ViolatesDeclaredSchema =>
        /\ ~HandlerCalled
        /\ (Entered("validate") /\ ~Validating) =>
              /\ pc = "done"
              /\ ~BodyLimitExceeded
              /\ Responded(400, ValidationErrorBody)
              /\ response[1].body.message # ""
        /\ (pc = "done" /\ ~Entered("validate")) =>
              IF BodyLimitExceeded
              THEN PayloadTooLarge
              ELSE /\ authConfig.present
                   /\ \/ Responded(401, [error |-> "Unauthorized"])
                      \/ Responded(403, [error |-> "Forbidden"])

C12_Witness ==
    /\ route.schemas = SchemaKinds
    /\ request.violates = {"query"}
    /\ authConfig.present
    /\ ctx.auth # None /\ ctx.auth[1].user = Some("alice")
    /\ Responded(400, ValidationErrorBody)
    /\ ~HandlerCalled

----------------------------------------------------------------------------
(* Properties of the error mapper (checked under SpecError) *)

\* the route handler threw, and the error it threw
HandlerThrew == handlerOutcome # None /\ handlerOutcome[1].throws
Thrown == handlerOutcome[1].error

\* validation-shaped: a schema engine's error, by name or by message
ValidationShaped(err) ==
    \/ err.name = "ZodError"
    \/ err.message \in {"Validation failed", "validation error: field is required"}

\* C13: the status of the response to a handler-thrown error is the error's
\* status field if present, else its details.status field if present, else
\* 400 if the error is validation-shaped, else 500; with both fields present
\* the status field wins.
C13_StatusPrecedence ==
    HandlerThrew =>
        /\ pc = "done"
        /\ response # None
        /\ Thrown.status # None => ResponseStatus = Thrown.status[1]
        /\ (Thrown.status = None /\ Thrown.detailsStatus # None) =>
               ResponseStatus = Thrown.detailsStatus[1]
        /\ (Thrown.status = None /\ Thrown.detailsStatus = None) =>
               ResponseStatus = IF ValidationShaped(Thrown) THEN 400 ELSE 500
        /\ setStatus = ResponseStatus

C13_Witness ==
    /\ HandlerThrew
    /\ Thrown.status = Some(403)
    /\ Thrown.detailsStatus = Some(500)
    /\ response # None
    /\ ResponseStatus = 403

InternalErrorBody ==
    [error |-> "INTERNAL_ERROR", message |-> "An unexpected error occurred"]

\* C14: whenever the status resolved for a handler-thrown error is 5xx, the
\* response body is {error: "INTERNAL_ERROR", message: "An unexpected error
\* occurred"}, whatever the error's name, message or details fields are.
C14_ServerErrorBodyIsGeneric ==
    (HandlerThrew /\ response # None /\ ResponseStatus >= 500) =>
        response[1].body = InternalErrorBody

\* C15 as stated: a handler-thrown error carrying neither status nor
\* details.status is answered 500 with the generic INTERNAL_ERROR body.
C15_UnannotatedErrorIs500 ==
    (HandlerThrew /\ Thrown.status = None /\ Thrown.detailsStatus = None) =>
        Responded(500, InternalErrorBody)

\* C15 (amended): a handler-thrown error carrying neither status nor
\* details.status is answered 500 with exactly the generic INTERNAL_ERROR
\* body unless it is validation-shaped (its name is ZodError or its message
\* contains "validation"); a validation-shaped one is answered 400 with a
\* VALIDATION_ERROR body carrying its message and its issue list.
C15_UnannotatedErrorIs500UnlessValidationShaped ==
    (HandlerThrew /\ Thrown.status = None /\ Thrown.detailsStatus = None) =>
        IF ValidationShaped(Thrown)
        THEN Responded(400,
                 [error   |-> "VALIDATION_ERROR",
                  message |-> IF Thrown.message = "" THEN "Validation failed"
                              ELSE Thrown.message,
                  details |-> Thrown.issues])
        ELSE Responded(500, InternalErrorBody)

C15_Witness ==
    /\ HandlerThrew
    /\ Thrown = Err("Error", None, None, "Database connection failed",
                    Some("issues"))
    /\ Responded(500, InternalErrorBody)

\* C16: a handler-thrown error with an explicit 4xx status other than 400 is
\* answered with that status and body {error: "ERROR", message: <the
\* error's message>}, for any error message.
C16_ClientErrorEchoesMessage ==
    (/\ HandlerThrew
     /\ Thrown.status # None
     /\ Thrown.status[1] \in 401..499) =>
        Responded(Thrown.status[1], [error |-> "ERROR", message |-> Thrown.message])

\* C38: for every handler-thrown error, whatever its status and
\* details.status fields hold, the response status set by handleRouteError
\* lies in 400..599: an error body never goes out with a success or redirect
\* status.
C38_ErrorStatusIsAnErrorStatus ==
    (HandlerThrew /\ response # None) =>
        /\ ResponseStatus \in 400..599
        /\ setStatus \in 400..599

----------------------------------------------------------------------------
(* Properties of the error paths (checked under SpecThrow) *)

\* the request ran into an error: authentication failed, authorization was
\* denied, a declared schema rejected its input, the handler threw or sending
\* the handler's result threw
AuthorizationDenied ==
    AuthorizationCalls # <<>> /\ Last(AuthorizationCalls).outcome \in {"false", "throw"}
ValidationFailed == Entered("validate") /\ ViolatesDeclaredSchema
SendThrew ==
    /\ Entered("send")
    /\ sendResponse(route, handlerOutcome[1].result).throws
OnErrorPath ==
    \/ AuthenticationRejected
    \/ AuthorizationDenied
    \/ ValidationFailed
    \/ HandlerThrew
    \/ SendThrew

\* C17: every request on an error path is answered, by the step that ran
\* into the error, with a body that has an `error` key; the error never
\* leaves the pipeline.
C17_ErrorPathsAnswerWithErrorKey ==
    (OnErrorPath /\ pc \notin {"before_handle_auth_error", "before_handle_authorize"}) =>
        /\ pc = "done"
        /\ response # None
        /\ "error" \in DOMAIN response[1].body

----------------------------------------------------------------------------
(* Properties of the stream encoder (checked under SpecStream) *)

\* the frames the encoder owes for the first n chunks of the source
RECURSIVE DataFrames(_, _, _, _)
DataFrames(isSSE, shouldRedact, upstream, n) ==
    IF n = 0 THEN <<>>
    ELSE Append(DataFrames(isSSE, shouldRedact, upstream, n - 1),
                (IF isSSE THEN <<"data: ">> ELSE <<>>)
                \o JSONStringify(IF shouldRedact
                                 THEN redactStreamChunk(upstream[n])
                                 ELSE upstream[n])
                \o (IF isSSE THEN <<"\n\n">> ELSE <<"0x1E">>))

\* the source yielded all its chunks and completed, pull() has handled the
\* completion, and the consumer did not cancel
SourceCompleted ==
    /\ stream.state \notin {"none", "cancelled"}
    /\ stream.source = "closed"
    /\ stream.read = None

\* the consumer has read everything the output stream held and found it closed
OutputDrained == stream.state = "closed" /\ stream.taken = Len(stream.out)

\* C18: for an SSE stream whose source yields N chunks and then completes
\* (and whose consumer has not cancelled the output),
\* the output is the N frames `data: <json>\n\n` of the chunks in source
\* order followed by one `data: [DONE]\n\n` frame; the output is then closed
\* and nothing else is ever enqueued.
C18_SSEFramesThenDone ==
    (SourceCompleted /\ stream.isSSE) =>
        /\ stream.state = "closed"
        /\ stream.pos = Len(stream.upstream)
        /\ Len(stream.out) = Len(stream.upstream) + 1
        /\ stream.out =
              DataFrames(TRUE, stream.shouldRedact, stream.upstream,
                         Len(stream.upstream))
              \o <<DoneFrame>>
        /\ \A i \in 1..Len(stream.upstream) :
              /\ Head(stream.out[i]) = "data: "
              /\ Last(stream.out[i]) = "\n\n"
              /\ stream.out[i] # DoneFrame

C18_Witness ==
    /\ route.responseType = "stream"
    /\ stream.isSSE
    /\ Len(stream.upstream) = MaxChunks
    /\ stream.upstream[1] # stream.upstream[2]
    /\ SourceCompleted
    /\ OutputDrained
    /\ Last(stream.out) = DoneFrame

\* C19: for a record-delimited stream whose source yields N chunks and then
\* completes (and whose consumer has not cancelled the output), the output
\* is exactly N records, the JSON of each chunk in
\* source order followed by a single 0x1E, and completion adds no terminator
\* or any other output.
C19_RecordsWithoutTerminator ==
    (SourceCompleted /\ ~stream.isSSE) =>
        /\ stream.state = "closed"
        /\ stream.pos = Len(stream.upstream)
        /\ Len(stream.out) = Len(stream.upstream)
        /\ stream.out =
              DataFrames(FALSE, stream.shouldRedact, stream.upstream,
                         Len(stream.upstream))
        /\ \A i \in 1..Len(stream.out) :
              /\ Last(stream.out[i]) = "0x1E"
              /\ Cardinality({j \in 1..Len(stream.out[i]) :
                                 stream.out[i][j] = "0x1E"}) = 1
              /\ stream.out[i] # DoneFrame

C19_Witness ==
    /\ route.streamFormat = "ndjson"
    /\ ~stream.isSSE
    /\ Len(stream.upstream) = MaxChunks
    /\ stream.upstream[2] # stream.upstream[3]
    /\ SourceCompleted
    /\ OutputDrained
    /\ Len(stream.out) = MaxChunks

\* the data frames enqueued so far: the output without the completion marker
DataOut ==
    IF stream.out # <<>> /\ Last(stream.out) = DoneFrame
    THEN SubSeq(stream.out, 1, Len(stream.out) - 1)
    ELSE stream.out

\* the number of chunks pull() has been handed so far: those read from the
\* source, less the one whose read has settled while pull() has not resumed
ChunksHandled ==
    stream.pos - (IF stream.read # None /\ stream.read[1].kind = "value"
                  THEN 1 ELSE 0)

\* C20 as stated: every chunk the encoder has taken from the source appears
\* in the output exactly once and in source order, for both framings: none
\* is dropped, duplicated or reordered.
C20_EveryChunkFramedOnce ==
    DataOut = DataFrames(stream.isSSE, stream.shouldRedact, stream.upstream,
                         ChunksHandled)

\* C20 (amended): each chunk is read from the source at most once, the data
\* frames of the output are always the frames of a prefix of the source in
\* source order (none duplicated or reordered), and that prefix is every
\* chunk the encoder has taken (none dropped) but for the last one in two
\* cases: a chunk whose read settles after the consumer cancelled the output
\* is taken and discarded, and a chunk that cannot be serialized gets no
\* frame and fails the output (which is errored once the cancellation of the
\* source has settled).
C20_EveryChunkFramedOnceUnlessCancelled ==
    /\ stream.pos <= Len(stream.upstream)
    /\ ChunksHandled >= 0
    /\ \E k \in 0..ChunksHandled :
          /\ DataOut = DataFrames(stream.isSSE, stream.shouldRedact,
                                  stream.upstream, k)
          /\ k >= ChunksHandled - 1
          /\ k < ChunksHandled =>
                \/ stream.state = "cancelled"
                \/ /\ stream.state = "errored" \/ stream.read = Cancelling
                   /\ StringifyThrows(stream.upstream[ChunksHandled])

C20_Witness ==
    /\ stream.ending = "error"
    /\ stream.state = "errored"
    /\ stream.shouldRedact
    /\ Len(stream.upstream) = MaxChunks
    /\ \E i \in 1..MaxChunks : stream.upstream[i].request # None
    /\ Len(DataOut) = MaxChunks
    /\ stream.taken = MaxChunks

\* pull() has been handed a failure: a read the source rejected, or a chunk
\* JSON.stringify rejects
ReadFailed ==
    /\ stream.source = "errored"
    /\ ~(stream.read # None /\ stream.read[1].kind = "error")
SerializationFailed ==
    /\ ChunksHandled > 0
    /\ StringifyThrows(stream.upstream[ChunksHandled])

\* C21: once a read of the source has failed or a chunk could not be
\* serialized (and the consumer has not cancelled the output), the source is
\* cancelled or has failed, the output stream is in the error state as soon
\* as the cancellation of the source has settled, the output holds the
\* frames of the chunks before the failure only, with no frame for the
\* failed chunk and no completion marker, and no read of the source is in
\* flight or issued again.
C21_FailureErrorsOutput ==
    /\ ((ReadFailed \/ SerializationFailed) /\ stream.state # "cancelled") =>
          /\ stream.source = IF SerializationFailed THEN "cancelled" ELSE "errored"
          /\ IF stream.read = Cancelling
             THEN stream.state = "readable"
             ELSE stream.state = "errored" /\ stream.read = None
          /\ \A i \in 1..Len(stream.out) : stream.out[i] # DoneFrame
          /\ stream.out =
                DataFrames(stream.isSSE, stream.shouldRedact, stream.upstream,
                           IF SerializationFailed THEN stream.pos - 1
                           ELSE stream.pos)
    /\ stream.state = "errored" =>
          /\ ReadFailed \/ SerializationFailed
          /\ stream.read = None
          /\ stream.source \in {"cancelled", "errored"}
          /\ \A i \in 1..Len(stream.out) : stream.out[i] # DoneFrame
          /\ stream.out =
                DataFrames(stream.isSSE, stream.shouldRedact, stream.upstream,
                           IF SerializationFailed THEN stream.pos - 1
                           ELSE stream.pos)

C21_Witness ==
    /\ stream.isSSE
    /\ Len(stream.upstream) = MaxChunks
    /\ stream.pos = 2
    /\ SerializationFailed
    /\ stream.state = "errored"
    /\ stream.source = "cancelled"
    /\ Len(stream.out) = 1
    /\ stream.taken = 1

\* C22: when the consumer cancels the output stream the chunk source is
\* cancelled with it (it is never left readable), and from then on no chunk
\* is read from the source and nothing is enqueued.
C22_CancelReachesSource ==
    [][/\ stream'.state = "cancelled" => stream'.source # "readable"
       /\ stream.state = "cancelled" =>
            /\ stream'.state = "cancelled"
            /\ stream'.pos = stream.pos
            /\ stream'.out = stream.out
            /\ stream'.taken = stream.taken]_vars

C22_Witness ==
    /\ stream.state = "cancelled"
    /\ stream.source = "cancelled"
    /\ stream.read = None
    /\ Len(stream.upstream) = MaxChunks
    /\ stream.pos = 1
    /\ Len(stream.out) = 1

----------------------------------------------------------------------------
(* Properties of cancellation (checked under SpecAbort) *)

\* C23: once the request's cancellation signal is set, the stream encoder
\* enqueues no further data frame for that request.
C23_NoDataFrameAfterAbort ==
    [][signal.aborted =>
          \A i \in (Len(stream.out) + 1)..Len(stream'.out) :
              stream'.out[i] = DoneFrame]_vars

\* C24: from its creation the derived signal is aborted exactly when
\* request.signal is (at once when request.signal is already aborted as the
\* context is derived, else in the step in which request.signal fires), it
\* goes from not aborted to aborted at most once, and it never reverts.
C24_DerivedSignalFollowsTransport ==
    [][/\ signal'.created => signal'.aborted = signal'.transport
       /\ signal.created => signal'.created
       /\ signal.aborted => signal'.aborted
       /\ signal.transport => signal'.transport
       /\ signal'.fired <= 1
       /\ signal'.fired = (IF signal'.aborted THEN 1 ELSE 0)
       /\ ctx'.derive # None =>
              ctx'.derive[1].abortSignal.aborted = signal'.aborted]_vars

C24_Witness ==
    /\ ~request.signalAborted
    /\ ctx.derive # None
    /\ ctx.derive[1].abortSignal.aborted
    /\ signal.created
    /\ signal.transport
    /\ signal.aborted
    /\ signal.fired = 1
    /\ ~signal.listening

-----------------------------------------------------------------------------
(* Specification of the handler input: a client that names its path, query  *)
(* and body fields like the context fields, and sends a request-context map *)
(* in the query string, in the body, or in both; the route is a JSON route  *)
(* whose handler returns a result.                                          *)

\* names a client gives to its own fields; two of them are context field names
ClientFields == {"agentId", "user", "tools"}
\* the value the client sends for a field in the path, the query or the body
ClientValue(source, field) == IF field = "user" THEN Some(source) ELSE source
ClientObjects(source) ==
    {[f \in D |-> ClientValue(source, f)] : D \in SUBSET ClientFields}

ContextKeys == {"tenant", "locale"}
ContextMaps(source) == {[k \in D |-> source] : D \in SUBSET ContextKeys}

\* the requestContext query parameter: absent, malformed (the text of a map
\* that is not JSON, such as {'tenant':'query'}), or the JSON of a map
ContextParams ==
    {None, Some([valid |-> FALSE, value |-> [k \in {"tenant"} |-> "query"]])}
    \cup {Some([valid |-> TRUE, value |-> m]) : m \in ContextMaps("query")}

\* the request body: absent, or an object with or without a requestContext
Bodies ==
    {None}
    \cup {Some(o) : o \in ClientObjects("body")}
    \cup {Some(Spread(o, [requestContext |-> m])) :
             o \in ClientObjects("body"), m \in ContextMaps("body")}

ParamsAuthConfigs ==
    {[present |-> FALSE, authenticateToken |-> FALSE,
      authorize |-> FALSE, authorizeUser |-> FALSE],
     [present |-> TRUE, authenticateToken |-> TRUE,
      authorize |-> TRUE, authorizeUser |-> FALSE]}

ParamsOutcomes ==
    {[throws |-> FALSE, result |-> Result(None, None, FALSE, FALSE)]}

InitParams ==
    /\ bodyLimit = None
    /\ routeAuthConfig = [k \in {} |-> TRUE]
    /\ authConfig \in ParamsAuthConfigs
    /\ route = [responseType |-> "json", streamFormat |-> "sse", schemas |-> {}]
    /\ request \in [method : {"POST"}, path : {<<"public">>},
                     authorization : {Some(<<"Bearer ", "tok">>)},
                     contentLength : {None}, signalAborted : {FALSE}, requestContext : ContextParams,
                     urlParams : ClientObjects("path"),
                     queryParams : ClientObjects("query"), body : Bodies,
                     violates : {{}}]
    /\ stream = NoStream
    /\ Fresh

NextParams ==
    \/ DeriveContext
    \/ DeriveAuth
    \/ DeriveAuthResume
    \/ BeforeHandleAuthError
    \/ BeforeHandleAuthorize
    \/ BeforeHandleAuthorizeResume
    \/ RouteGetParams
    \/ RouteParsePathParams
    \/ RouteParseQueryParams
    \/ RouteParseBody
    \/ RouteHandler
    \/ RouteHandlerResumeOn(ParamsOutcomes)

SpecParams == InitParams /\ [][NextParams]_vars

-----------------------------------------------------------------------------
(* Properties of the handler input (checked under SpecParams) *)

HandlerInput == calls.handler[1]
\* the principal the authentication stage produced for this request
PipelineUser ==
    IF Len(calls.authenticateToken) = 1
    THEN Some(calls.authenticateToken[1].outcome)
    ELSE None
\* the request-context map of a request that sends none
NoClientContext == mergeRequestContext(None, None)

\* C25 (as stated): in the handler input the six context fields mastra,
\* requestContext, tools, abortSignal, taskStore and user have the pipeline's
\* values whatever the client's path, query and body fields are: the values a
\* request without those fields gets
C25_ContextFieldsIgnoreClientFields ==
    HandlerCalled =>
        /\ HandlerInput.mastra = "mastra"
        /\ HandlerInput.tools = "tools"
        /\ HandlerInput.taskStore = "taskStore"
        /\ HandlerInput.abortSignal = [aborted |-> request.signalAborted]
        /\ HandlerInput.user = PipelineUser
        /\ HandlerInput.requestContext = NoClientContext

\* C25 (amended): mastra, tools, abortSignal, taskStore and user have the
\* pipeline's values whatever the client's fields are, so a client-supplied
\* `user` is never the principal; requestContext is the one context field the
\* client's query parameter and body property of that name do reach
C25_ContextFieldsIgnoreClientFieldsButRequestContext ==
    HandlerCalled =>
        /\ HandlerInput.mastra = "mastra"
        /\ HandlerInput.tools = "tools"
        /\ HandlerInput.taskStore = "taskStore"
        /\ HandlerInput.abortSignal = [aborted |-> request.signalAborted]
        /\ HandlerInput.user = PipelineUser
        /\ \A source \in {"path", "query", "body"} :
              HandlerInput.user # ClientValue(source, "user")

C25_Witness ==
    /\ HandlerCalled
    /\ "user" \in DOMAIN request.urlParams
    /\ "user" \in DOMAIN request.queryParams
    /\ request.body # None /\ ClientFields \subseteq DOMAIN request.body[1]
    /\ HandlerInput.user = Some("alice")
    /\ HandlerInput.agentId = "body"

\* the keys of the map the client sent in the requestContext query parameter
\* (none when the parameter is absent or is not JSON) and in the body
QueryContextKeys ==
    IF request.requestContext # None /\ request.requestContext[1].valid
    THEN DOMAIN request.requestContext[1].value
    ELSE {}
BodyContextKeys ==
    IF request.body # None /\ "requestContext" \in DOMAIN request.body[1]
    THEN DOMAIN request.body[1].requestContext
    ELSE {}

\* C29: the request-context map the handler receives has exactly the keys of
\* the query-sourced map and of the body's requestContext object, a key of the
\* body carrying the body's value and any other key the query's
C29_RequestContextIsMergeBodyWins ==
    HandlerCalled =>
        /\ DOMAIN HandlerInput.requestContext = QueryContextKeys \cup BodyContextKeys
        /\ \A k \in BodyContextKeys : HandlerInput.requestContext[k] = "body"
        /\ \A k \in QueryContextKeys \ BodyContextKeys :
              HandlerInput.requestContext[k] = "query"

C29_Witness ==
    /\ HandlerCalled
    /\ QueryContextKeys = {"tenant", "locale"}
    /\ BodyContextKeys = {"tenant"}
    /\ HandlerInput.requestContext = [tenant |-> "body", locale |-> "query"]

\* the requestContext query parameter is there and is not JSON
MalformedContextParam ==
    request.requestContext # None /\ ~request.requestContext[1].valid

\* C35: a request whose requestContext query parameter is malformed goes
\* through the pipeline as one without the parameter: the derived map is empty,
\* the handler's map has the body's keys only, and the request ends with the
\* handler's result and status 200 unless the auth gate denied it
C35_MalformedContextParamIgnored ==
    MalformedContextParam =>
        /\ ctx.derive # None => ctx.derive[1].requestContext = NoClientContext
        /\ HandlerCalled =>
              DOMAIN HandlerInput.requestContext = BodyContextKeys
        /\ pc # "escaped"
        /\ pc = "done" =>
              IF HandlerCalled
              THEN Responded(200, Result(None, None, FALSE, FALSE))
              ELSE \/ AuthenticationRejected
                        /\ Responded(401, [error |-> "Unauthorized"])
                   \/ AuthorizationCalls # <<>>
                        /\ Last(AuthorizationCalls).outcome # "true"
                        /\ Responded(403, [error |-> "Forbidden"])

C35_Witness ==
    /\ MalformedContextParam
    /\ request.body = None
    /\ HandlerCalled
    /\ HandlerInput.requestContext = NoClientContext
    /\ Responded(200, Result(None, None, FALSE, FALSE))

-----------------------------------------------------------------------------
(* Properties of the request-scoped context (checked under Spec) *)

\* authenticateToken returned a principal and the authorization function
\* returned true
AuthenticatedAndAllowed ==
    /\ calls.authenticateToken # <<>>
    /\ Last(calls.authenticateToken).outcome \notin {"pending", "null", "throw"}
    /\ AuthorizationCalls # <<>>
    /\ Last(AuthorizationCalls).outcome = "true"
HandlerReturned == handlerOutcome # None /\ ~handlerOutcome[1].throws

OwnStatusOr200(rt, result) ==
    CASE rt.responseType = "mcp-http"
             /\ result.status # None /\ result.status # Some(0) ->
           result.status[1]
      [] rt.responseType \notin {"stream", "mcp-http", "mcp-sse"}
             /\ IsResponse(result) ->
           result.status[1]
      [] rt.responseType = "datastream-response"
             /\ ~IsResponse(result) /\ "toResponse" \in DOMAIN result ->
           result.toResponse.status
      [] OTHER -> 200

ContextProduced ==
    /\ ctx.derive # None
    /\ {"mastra", "requestContext", "tools", "abortSignal"}
           \subseteq DOMAIN ctx.derive[1]
    /\ ctx.derive[1].mastra = "mastra"
    /\ ctx.derive[1].tools = "tools"
    /\ ctx.derive[1].abortSignal \in [aborted : BOOLEAN]
\* some stage other than the context derive has run or is running
OtherStageStarted ==
    \/ pc # "derive_context"
    \/ ctx.auth # None
    \/ calls # NoCalls
    \/ response # None

\* C27: the request-scoped context (mastra instance, request-context map, tools
\* record, AbortSignal) is the first thing the pipeline produces: no other stage
\* has started without it, and it is there both when the handler is called and
\* when the auth gate has answered 401 or 403
C27_ContextProducedFirst ==
    /\ trace # <<>> => trace[1] = "context"
    /\ OtherStageStarted => ContextProduced
    /\ HandlerCalled => ContextProduced
    /\ (Responded(401, [error |-> "Unauthorized"])
        \/ Responded(403, [error |-> "Forbidden"])) => ContextProduced

C27_Witness ==
    /\ Responded(403, [error |-> "Forbidden"])
    /\ ~HandlerCalled
    /\ ContextProduced
    /\ trace = <<"context", "authenticate", "authorize">>

-----------------------------------------------------------------------------
(* Specification of the JSON route: the handler returns an object, an      *)
(* array of objects or a primitive, the transport writes it as JSON and the *)
(* client parses it. An object is the sequence of its properties in         *)
(* insertion order, each a pair of a name and an optional value (None:      *)
(* undefined); a primitive value is the text of its JavaScript literal.     *)

PropertyNames == {"id", "value", "ok"}
JsonValues == {"\"a\"", "1", "-0", "NaN", "true", "null"}

\* the objects of exactly n properties with distinct names
RECURSIVE ObjectsOf(_)
ObjectsOf(n) ==
    IF n = 0 THEN {<<>>}
    ELSE {Append(o, <<name, v>>) :
              o \in ObjectsOf(n - 1),
              name \in PropertyNames,
              v \in {None} \cup {Some(x) : x \in JsonValues}}
JsonObjects ==
    {o \in UNION {ObjectsOf(n) : n \in 0..MaxProps} :
        \A i, j \in 1..Len(o) : o[i][1] = o[j][1] => i = j}
ArrayItems == {<<<<"id", Some("1")>>, <<"value", Some("\"a\"")>>>>,
               <<<<"id", Some("-0")>>, <<"value", None>>>>}
JsonArrays == UNION {[1..n -> ArrayItems] : n \in 0..MaxProps}
JsonResults ==
    {[kind |-> "object", value |-> o] : o \in JsonObjects}
    \cup {[kind |-> "array", value |-> a] : a \in JsonArrays}
    \cup {[kind |-> "primitive", value |-> v] : v \in JsonValues}

\* JSON.stringify of a number: -0 is written 0 and NaN null
SerializeValue(v) ==
    CASE v = "-0" -> "0"
      [] v = "NaN" -> "null"
      [] OTHER -> v

\* JSON.stringify of an object: undefined properties are left out
StringifyObject(o) ==
    LET defined == SelectSeq(o, IsDefined)
    IN  <<"{">>
        \o JoinProperties([i \in 1..Len(defined) |->
                              <<defined[i][1], Some(SerializeValue(defined[i][2][1]))>>])
        \o <<"}">>

RECURSIVE StringifyItems(_)
StringifyItems(items) ==
    IF items = <<>> THEN <<>>
    ELSE StringifyObject(items[1])
         \o (IF Len(items) > 1 THEN <<",">> ELSE <<>>)
         \o StringifyItems(Tail(items))

\* JSON.stringify of a handler result
StringifyResult(result) ==
    CASE result.kind = "array" ->
           <<"[">> \o StringifyItems(result.value) \o <<"]">>
      [] result.kind = "object" ->
           StringifyObject(result.value)
      [] OTHER ->
           <<SerializeValue(result.value)>>

\* JSON.parse: an object is read as the map from its property names to values
RECURSIVE ParseProperties(_)
ParseProperties(tokens) ==
    IF tokens = <<>> THEN NoFields
    ELSE Spread([name \in {tokens[1]} |-> tokens[3]],
                ParseProperties(SubSeq(tokens, 5, Len(tokens))))
ParseObject(tokens) == ParseProperties(SubSeq(tokens, 2, Len(tokens) - 1))

RECURSIVE ParseItems(_)
ParseItems(tokens) ==
    IF tokens = <<>> THEN <<>>
    ELSE LET close == CHOOSE i \in 1..Len(tokens) :
                          /\ tokens[i] = "}"
                          /\ \A j \in 1..(i - 1) : tokens[j] # "}"
         IN  <<ParseObject(SubSeq(tokens, 1, close))>>
             \o ParseItems(SubSeq(tokens, close + 2, Len(tokens)))

JSONParse(text) ==
    CASE Head(text) = "[" ->
           [kind |-> "array", value |-> ParseItems(SubSeq(text, 2, Len(text) - 1))]
      [] Head(text) = "{" ->
           [kind |-> "object", value |-> ParseObject(text)]
      [] OTHER ->
           [kind |-> "primitive", value |-> Head(text)]

\* The transport's mapping of the value the route handler returns to the
\* response it sends. The framework is not part of the repository; the
\* specification has it serialize the returned value, as JSON: "`json`:
\* return the handler result unchanged; the transport serializes it".
mapResponse(value) ==
    [contentType |-> "application/json", text |-> StringifyResult(value)]

JsonOutcomes == {[throws |-> FALSE, result |-> r] : r \in JsonResults}

InitJson ==
    /\ bodyLimit = None
    /\ routeAuthConfig = [k \in {} |-> TRUE]
    /\ authConfig \in ParamsAuthConfigs
    /\ route = [responseType |-> "json", streamFormat |-> "sse", schemas |-> {}]
    /\ request \in [method : {"GET"}, path : {<<"public">>},
                     authorization : {Some(<<"Bearer ", "tok">>)},
                     contentLength : {None}, signalAborted : {FALSE}, requestContext : {None},
                     urlParams : {NoFields}, queryParams : {NoFields},
                     body : {None}, violates : {{}}]
    /\ stream = NoStream
    /\ Fresh

NextJson ==
    \/ DeriveContext
    \/ DeriveAuth
    \/ DeriveAuthResume
    \/ BeforeHandleAuthError
    \/ BeforeHandleAuthorize
    \/ BeforeHandleAuthorizeResume
    \/ RouteGetParams
    \/ RouteParsePathParams
    \/ RouteParseQueryParams
    \/ RouteParseBody
    \/ RouteHandler
    \/ RouteHandlerResumeOn(JsonOutcomes)

SpecJson == InitJson /\ [][NextJson]_vars

-----------------------------------------------------------------------------
(* Properties of the JSON route (checked under SpecJson) *)

\* response.json(): the body of the response the client receives, decoded
DecodedBody == JSONParse(mapResponse(response[1].body).text)

\* the value JSON.parse(JSON.stringify(x)) denotes, read off x itself: a
\* number that JSON cannot write is 0 (-0) or null (NaN), an object is the map
\* of its defined properties, an array the sequence of its items
RoundTrippedValue(v) == IF v = "-0" THEN "0" ELSE IF v = "NaN" THEN "null" ELSE v
RoundTrippedObject(o) ==
    LET names == {o[i][1] : i \in {j \in 1..Len(o) : o[j][2] # None}}
    IN  [name \in names |->
            RoundTrippedValue(o[CHOOSE i \in 1..Len(o) : o[i][1] = name][2][1])]
RoundTripped(result) ==
    CASE result.kind = "array" ->
           [kind |-> "array",
            value |-> [i \in 1..Len(result.value) |->
                          RoundTrippedObject(result.value[i])]]
      [] result.kind = "object" ->
           [kind |-> "object", value |-> RoundTrippedObject(result.value)]
      [] OTHER ->
           [kind |-> "primitive", value |-> RoundTrippedValue(result.value)]

\* C28: on a JSON route, once the handler has returned a result, the value
\* handed to the transport is that result unchanged and the status is 200, so
\* the decoded response body equals JSON.parse(JSON.stringify(result))
C28_JsonResultRoundTrips ==
    (HandlerReturned /\ pc = "done") =>
        /\ response = Some([status |-> 200, body |-> handlerOutcome[1].result])
        /\ DecodedBody = RoundTripped(handlerOutcome[1].result)

C28_Witness ==
    /\ HandlerReturned /\ pc = "done"
    /\ handlerOutcome[1].result =
           [kind |-> "object",
            value |-> <<<<"value", None>>, <<"id", Some("-0")>>>>]
    /\ response[1].status = 200
    /\ DecodedBody = [kind |-> "object", value |-> [id |-> "0"]]

-----------------------------------------------------------------------------
(* Specification of concurrent requests: MaxRequests requests in flight on  *)
(* one server, each a task that runs the hooks and the route handler and    *)
(* yields at every await; the tasks share this.routeAuthConfig, the auth    *)
(* configuration, this.mastra, this.tools and this.taskStore, which no hook *)
(* writes. Everything a hook creates (the AbortController, the request-     *)
(* context map, the values it returns, set.status) is local to the call and *)
(* attached to that request's context.                                      *)

Requests == 1..MaxRequests
\* the principal whose token request i carries
Principals == <<"alice", "bob", "carol">>

TaskRequest(i, transportAborted) ==
    [method |-> "GET", path |-> <<"public">>,
     authorization |-> Some(<<"Bearer ", Principals[i]>>),
     contentLength |-> None, signalAborted |-> transportAborted,
     requestContext |->
         Some([valid |-> TRUE, value |-> [k \in {"tenant"} |-> Principals[i]]]),
     urlParams |-> NoFields, queryParams |-> NoFields, body |-> None,
     violates |-> {}]

\* the state of one request as it arrives (pending: the hook at pc has called
\* a provider function and awaits it; input: what route.handler was called
\* with)
ArrivingTask(auth, req) ==
    [request |-> req, pc |-> Head(InitHooks(auth, bodyLimit)),
     signal |-> ArrivingSignal(req.signalAborted),
     ctx |-> [derive |-> None, auth |-> None],
     setStatus |-> 200, response |-> None, pending |-> FALSE, input |-> None]

ConcurrentAuthConfig ==
    [present |-> TRUE, authenticateToken |-> TRUE,
     authorize |-> TRUE, authorizeUser |-> FALSE]

InitConcurrent ==
    /\ bodyLimit = None
    /\ routeAuthConfig = [k \in {} |-> TRUE]
    /\ authConfig = ConcurrentAuthConfig
    /\ route = [responseType |-> "json", streamFormat |-> "sse", schemas |-> {}]
    /\ request = TaskRequest(1, FALSE)
    /\ pc = "done"
    /\ ctx = [derive |-> None, auth |-> None]
    /\ authOverride = None
    /\ setStatus = 200
    /\ response = None
    /\ calls = NoCalls
    /\ trace = <<>>
    /\ handlerOutcome = None
    /\ stream = NoStream
    /\ signal = ArrivingSignal(FALSE)
    /\ \E aborted \in [Requests -> BOOLEAN] :
         tasks = [i \in Requests |->
                     ArrivingTask(authConfig, TaskRequest(i, aborted[i]))]

\* the variables of the single-request pipeline, which the tasks leave alone
requestVars == <<bodyLimit, routeAuthConfig, authConfig, route, request, pc, ctx,
                 authOverride, setStatus, response, calls, trace, handlerOutcome,
                 stream, signal>>

\* registerContextMiddleware: app.derive, for request i
TaskDeriveContext(i) ==
    /\ tasks[i].pc = "derive_context"
    /\ tasks' = [tasks EXCEPT
         ![i].ctx.derive =
             Some([mastra         |-> "mastra",
                   requestContext |-> mergeRequestContext(
                       ParseRequestContext(tasks[i].request.requestContext), None),
                   tools          |-> "tools",
                   abortSignal    |-> [aborted |-> tasks[i].signal.transport],
                   taskStore      |-> "taskStore"]),
         ![i].signal = DeriveSignal(tasks[i].signal),
         ![i].pc = NextHook(authConfig, "derive_context")]
    /\ UNCHANGED requestVars

\* what authenticateToken does with a token: returns the principal it names,
\* returns a falsy value, throws
TaskAuthnOutcomes(token) == {token[1], "null", "throw"}

\* registerAuthMiddleware: app.derive (authentication), for request i, up to
\* the point where it returns or awaits authenticateToken
TaskDeriveAuth(i) ==
    /\ tasks[i].pc = "derive_auth"
    /\ ~tasks[i].pending
    /\ LET override == checkRouteAuthOverride(routeAuthConfig, tasks[i].request)
       IN  IF SkipAuth(override) \/ ~authConfig.authenticateToken
           THEN tasks' = [tasks EXCEPT
                    ![i].ctx.auth = Some([user |-> None, authError |-> None]),
                    ![i].pc = NextHook(authConfig, "derive_auth")]
           ELSE tasks' = [tasks EXCEPT ![i].pending = TRUE]
    /\ UNCHANGED requestVars

\* the auth derive of request i resumes after
\* `await authConfig.authenticateToken(...)`
TaskDeriveAuthResume(i) ==
    /\ tasks[i].pc = "derive_auth"
    /\ tasks[i].pending
    /\ \E outcome \in TaskAuthnOutcomes(BearerToken(tasks[i].request.authorization)) :
         IF AuthenticationFailed(outcome)
         THEN tasks' = [tasks EXCEPT
                  ![i].setStatus = 401,
                  ![i].ctx.auth = Some(AuthFailure(None)),
                  ![i].pending = FALSE,
                  ![i].pc = NextHook(authConfig, "derive_auth")]
         ELSE tasks' = [tasks EXCEPT
                  ![i].ctx.auth = Some([user |-> Some(outcome),
                                        authError |-> None]),
                  ![i].pending = FALSE,
                  ![i].pc = NextHook(authConfig, "derive_auth")]
    /\ UNCHANGED requestVars

\* registerAuthMiddleware: first app.onBeforeHandle, for request i
TaskBeforeHandleAuthError(i) ==
    /\ tasks[i].pc = "before_handle_auth_error"
    /\ IF IsUnauthorized(tasks[i].ctx.auth[1])
       THEN tasks' = [tasks EXCEPT
                ![i].setStatus = 401,
                ![i].response = Some([status |-> 401,
                                      body |-> [error |-> "Unauthorized"]]),
                ![i].pc = "done"]
       ELSE tasks' = [tasks EXCEPT
                ![i].pc = NextHook(authConfig, "before_handle_auth_error")]
    /\ UNCHANGED requestVars

\* registerAuthMiddleware: second app.onBeforeHandle, for request i, up to the
\* point where it returns or awaits the provider function (authorize, which
\* ConcurrentAuthConfig configures, is always awaited)
TaskBeforeHandleAuthorize(i) ==
    /\ tasks[i].pc = "before_handle_authorize"
    /\ ~tasks[i].pending
    /\ IF \/ IsUnauthorized(tasks[i].ctx.auth[1])
          \/ ~authConfig.authorize /\ ~authConfig.authorizeUser
       THEN tasks' = [tasks EXCEPT
                ![i].pc = NextHook(authConfig, "before_handle_authorize")]
       ELSE tasks' = [tasks EXCEPT ![i].pending = TRUE]
    /\ UNCHANGED requestVars

\* the authorization hook of request i resumes after the provider function
\* settled
TaskBeforeHandleAuthorizeResume(i) ==
    /\ tasks[i].pc = "before_handle_authorize"
    /\ tasks[i].pending
    /\ \E outcome \in AuthzOutcomes :
         IF Allowed(outcome)
         THEN tasks' = [tasks EXCEPT
                  ![i].pending = FALSE,
                  ![i].pc = NextHook(authConfig, "before_handle_authorize")]
         ELSE tasks' = [tasks EXCEPT
                  ![i].setStatus = 403,
                  ![i].response = Some([status |-> 403,
                                        body |-> [error |-> "Forbidden"]]),
                  ![i].pending = FALSE,
                  ![i].pc = "done"]
    /\ UNCHANGED requestVars

\* the positions of the route handler up to the call of route.handler: each
\* is left through an await (getParams, parsePathParams, parseQueryParams,
\* parseBody)
RouteAwaits ==
    <<"route_validate", "parse_path_params", "parse_query_params", "parse_body",
      "route_handler">>

\* registerRoute handler, steps 1-2, for request i: from one await to the next
\* (the route declares no schema, so no parse method rejects)
TaskRouteParse(i) ==
    /\ \E k \in 1..(Len(RouteAwaits) - 1) :
         /\ tasks[i].pc = RouteAwaits[k]
         /\ tasks' = [tasks EXCEPT ![i].pc = RouteAwaits[k + 1]]
    /\ UNCHANGED requestVars

\* registerRoute handler, steps 3-6, for request i: the handler is called with
\* handlerParams and the task awaits it
TaskRouteCall(i) ==
    /\ tasks[i].pc = "route_handler"
    /\ tasks[i].input = None
    /\ tasks' = [tasks EXCEPT
         ![i].input = Some(HandlerParams(tasks[i].request, tasks[i].ctx))]
    /\ UNCHANGED requestVars

\* the handler of request i, while it runs, writes a key of the
\* request-context map it was given: handlerParams.requestContext is the map
\* the context derive created (no request here has a body to merge), so the
\* write shows in the handler input and in the context alike
TaskHandlerWrites(i) ==
    /\ tasks[i].pc = "route_handler"
    /\ tasks[i].input # None
    /\ "seen" \notin DOMAIN tasks[i].input[1].requestContext
    /\ LET written == Spread(tasks[i].input[1].requestContext,
                             [k \in {"seen"} |-> Principals[i]])
       IN  tasks' = [tasks EXCEPT
                ![i].input = Some([@[1] EXCEPT !.requestContext = written]),
                ![i].ctx.derive[1].requestContext = written]
    /\ UNCHANGED requestVars

\* registerRoute handler, step 7, for request i: the handler has returned and
\* sendResponse passes its result on
TaskRouteReturn(i) ==
    /\ tasks[i].pc = "route_handler"
    /\ tasks[i].input # None
    /\ tasks' = [tasks EXCEPT
         ![i].response = Some([status |-> tasks[i].setStatus,
                               body |-> [ok |-> "true"]]),
         ![i].pc = "done"]
    /\ UNCHANGED requestVars

\* request t once its AbortController's signal is sig: the context and the
\* handler input hold that same signal object
WithSignal(t, sig) ==
    [t EXCEPT !.signal = sig,
              !.ctx = IF @.derive = None THEN @
                      ELSE [@ EXCEPT !.derive[1].abortSignal = [aborted |-> sig.aborted]],
              !.input = IF @ = None THEN @
                        ELSE Some([@[1] EXCEPT !.abortSignal = [aborted |-> sig.aborted]])]

\* Mutant: one AbortController serves every request
AbortTransport_SharedController(ts, i) ==
    [j \in DOMAIN ts |->
        [ts[j] EXCEPT !.signal =
            IF j = i THEN AbortSignal(@)
            ELSE [@ EXCEPT !.aborted = @ \/ ts[j].signal.created]]]

\* the abort event of request i's own request.signal reaches the listener
\* that request's derive registered, if any
AbortTransport(ts, i) ==
    [ts EXCEPT ![i] = WithSignal(@, AbortSignal(@.signal))]

\* the transport of request i is cancelled
TaskTransportAbort(i) ==
    /\ ~tasks[i].signal.transport
    /\ tasks' = AbortTransport(tasks, i)
    /\ UNCHANGED requestVars

NextConcurrent ==
    \/ \E i \in Requests : TaskDeriveContext(i)
    \/ \E i \in Requests : TaskDeriveAuth(i)
    \/ \E i \in Requests : TaskDeriveAuthResume(i)
    \/ \E i \in Requests : TaskBeforeHandleAuthError(i)
    \/ \E i \in Requests : TaskBeforeHandleAuthorize(i)
    \/ \E i \in Requests : TaskBeforeHandleAuthorizeResume(i)
    \/ \E i \in Requests : TaskRouteParse(i)
    \/ \E i \in Requests : TaskRouteCall(i)
    \/ \E i \in Requests : TaskHandlerWrites(i)
    \/ \E i \in Requests : TaskRouteReturn(i)
    \/ \E i \in Requests : TaskTransportAbort(i)

SpecConcurrent == InitConcurrent /\ [][NextConcurrent]_vars

-----------------------------------------------------------------------------
(* Properties of concurrent requests (checked under SpecConcurrent) *)

\* the values of request i that belong to it alone
TaskOwned(t) ==
    [signal |-> t.signal,
     user |-> IF t.ctx.auth = None THEN None ELSE t.ctx.auth[1].user,
     authError |-> IF t.ctx.auth = None THEN None ELSE t.ctx.auth[1].authError,
     requestContext |-> IF t.ctx.derive = None THEN None
                        ELSE Some(t.ctx.derive[1].requestContext)]

\* C30: whatever the interleaving, a step changes the cancellation signal, the
\* principal, the auth-failure marker and the request-context map of one
\* request at most; a request's derived signal is cancelled only when its own
\* transport is; its principal is the one its own token names, every value
\* of its request-context map is its own, and the map its handler receives
\* is that map
C30_RequestsAreIndependent ==
    [][/\ \A i, j \in Requests :
             (i # j /\ TaskOwned(tasks'[i]) # TaskOwned(tasks[i]))
                 => tasks'[j] = tasks[j]
       /\ \A i \in Requests :
             /\ tasks'[i].signal.aborted => tasks'[i].signal.transport
             /\ TaskOwned(tasks'[i]).user \in {None, Some(Principals[i])}
             /\ tasks'[i].ctx.derive # None =>
                   \A k \in DOMAIN tasks'[i].ctx.derive[1].requestContext :
                       tasks'[i].ctx.derive[1].requestContext[k] = Principals[i]
             /\ tasks'[i].input # None =>
                   tasks'[i].input[1].requestContext
                       = tasks'[i].ctx.derive[1].requestContext]_vars

C30_Witness ==
    /\ tasks # NoTasks
    /\ tasks[1].signal.created /\ tasks[1].signal.aborted
    /\ ~tasks[1].request.signalAborted
    /\ tasks[2].signal.created /\ ~tasks[2].signal.aborted
    /\ tasks[2].pc = "route_handler"
    /\ tasks[2].input # None
    /\ tasks[2].input[1].user = Some("bob")
    /\ tasks[2].input[1].requestContext = [tenant |-> "bob", seen |-> "bob"]
    /\ tasks[2].ctx.derive[1].requestContext = [tenant |-> "bob", seen |-> "bob"]
    /\ tasks[1].ctx.auth # None /\ tasks[1].ctx.auth[1].authError = Some("unauthorized")

-----------------------------------------------------------------------------
(* Further properties of the auth enforcer (checked under Spec) *)

\* what a client can learn of a request: the status and the response
ClientView == [status |-> setStatus, response |-> response]
UnauthorizedResponse == Some([status |-> 401, body |-> [error |-> "Unauthorized"]])

\* C31 (amended): whether authenticateToken returned a falsy value or threw,
\* and whatever the message of the thrown error, the context carries the same
\* marker and the client sees the same thing, with nothing of the thrown
\* error in it: status 401 and the body {error: "Unauthorized"}, or, when a
\* body-size limit is configured and the content-length exceeds it, status
\* 413 and the value of onError
C31_ThrowLooksLikeFalsyResultUnlessTooLarge ==
    AuthenticationRejected =>
        /\ ctx.auth = Some([user |-> None, authError |-> Some("unauthorized")])
        /\ ClientView \in
              {[status |-> 401, response |-> None]}
              \cup (IF BodyLimitExceeded
                    THEN {[status |-> 413,
                           response |-> Some([status |-> 413,
                                              body |-> bodyLimit[1].onError])]}
                    ELSE {[status |-> 401, response |-> UnauthorizedResponse]})
        /\ pc = "done" => response # None

\* C31 as stated: whether authenticateToken returned a falsy value or threw,
\* and whatever the message of the thrown error, the context carries the same
\* marker and the client sees the same thing: status 401 and, once answered,
\* the body {error: "Unauthorized"}, with nothing of the thrown error in it
C31_ThrowLooksLikeFalsyResult ==
    AuthenticationRejected =>
        /\ ctx.auth = Some([user |-> None, authError |-> Some("unauthorized")])
        /\ ClientView \in {[status |-> 401, response |-> None],
                           [status |-> 401, response |-> UnauthorizedResponse]}
        /\ pc = "done" => response = UnauthorizedResponse

C31_Witness ==
    /\ calls.authenticateToken # <<>>
    /\ Last(calls.authenticateToken).thrown = Some("connect ECONNREFUSED db.internal")
    /\ pc = "done"
    /\ response = UnauthorizedResponse

\* authenticateToken returned a principal for this request
Authenticated ==
    /\ calls.authenticateToken # <<>>
    /\ Last(calls.authenticateToken).outcome \notin {"pending", "null", "throw"}

\* C32: the authorize stage calls at most one provider function per request:
\* authorize when it is configured, authorizeUser only when authorize is
\* absent; when neither is configured no function is called, no 403 Forbidden
\* is given, and an authenticated request that reaches the authorize stage
\* (the body-limit hook runs before it) goes on to the route (its handler is
\* called unless a declared schema rejects its parameters)
C32_AtMostOneAuthorizationProvider ==
    /\ Len(calls.authorize) + Len(calls.authorizeUser) <= 1
    /\ authConfig.authorize => calls.authorizeUser = <<>>
    /\ calls.authorizeUser # <<>> => authConfig.authorizeUser /\ ~authConfig.authorize
    /\ calls.authorize # <<>> => authConfig.authorize
    /\ (~authConfig.authorize /\ ~authConfig.authorizeUser) =>
          /\ ~AuthorizationCalled
          /\ ~Responded(403, [error |-> "Forbidden"])
          /\ (Authenticated /\ pc = "done" /\ ~BodyLimitExceeded) =>
                 HandlerCalled \/ route.schemas \cap request.violates # {}

C32_Witness ==
    /\ authConfig.authorize /\ authConfig.authorizeUser
    /\ Len(calls.authorize) = 1
    /\ calls.authorizeUser = <<>>
    /\ HandlerCalled

\* the authorization function called for this request threw or rejected
AuthorizationThrew ==
    AuthorizationCalls # <<>> /\ Last(AuthorizationCalls).outcome = "throw"
\* the request was answered by a hook of the auth enforcer, before the route
\* (an answer of the body-limit hook is not the enforcer's)
GateAnswered ==
    /\ response # None
    /\ ~BodyLimitExceeded
    /\ \A k \in 1..Len(trace) : trace[k] \in {"context", "authenticate", "authorize"}

\* C33: once the authorization function has thrown, the request is answered
\* 403 {error: "Forbidden"}, the handler is never called and nothing escapes the
\* hook; and every answer the enforcer gives is the 401 or the 403
C33_AuthorizationThrowIs403 ==
    /\ AuthorizationThrew =>
          /\ pc = "done"
          /\ Responded(403, [error |-> "Forbidden"])
          /\ setStatus = 403
          /\ ~HandlerCalled
    /\ GateAnswered =>
          \/ Responded(401, [error |-> "Unauthorized"])
          \/ Responded(403, [error |-> "Forbidden"])
    /\ ~HandlerCalled /\ trace # <<>> /\ Last(trace) \in {"authenticate", "authorize"}
          => pc # "escaped"

C33_Witness ==
    /\ calls.authorize # <<>>
    /\ Last(calls.authorize).outcome = "throw"
    /\ Last(calls.authorize).user = Some("alice")
    /\ Responded(403, [error |-> "Forbidden"])
    /\ ~HandlerCalled

\* C37: when sendResponse throws (a stream or mcp-sse route whose handler
\* result has no fullStream chunk source), the error is caught at the route
\* handler's catch block like a handler-thrown error without status and
\* answered 500 with the body {error: "INTERNAL_ERROR", message: "An
\* unexpected error occurred"}; no stream is opened
C37_SendFailureIs500 ==
    SendThrew =>
        /\ HandlerReturned
        /\ pc = "done"
        /\ setStatus = 500
        /\ Responded(500, InternalErrorBody)
        /\ stream.state = "none"

-----------------------------------------------------------------------------
(* Further properties of the Route Auth Resolver (checked under SpecResolver) *)

\* the wildcard keys of method token m that apply to the request
WildcardMatching(m) == {k \in Matching : k.m = m /\ k.p # request.path}
\* the one with the longest prefix
Longest(keys) == CHOOSE k \in keys : \A k2 \in keys : Len(k.p) >= Len(k2.p)

\* C34: when the decision falls to the wildcard keys of one method token (no
\* key consulted earlier applies), the matching wildcard key with the longest
\* prefix decides; when no key of the map applies, the resolver returns default
C34_LongestWildcardDecides ==
    HasResolved =>
        /\ (ExactKey \notin DOMAIN routeAuthConfig
            /\ WildcardMatching(request.method) # {}) =>
               Resolved = Some(routeAuthConfig[Longest(WildcardMatching(request.method))])
        /\ (ConcreteMatching = {}
            /\ Key("ALL", request.path) \notin DOMAIN routeAuthConfig
            /\ WildcardMatching("ALL") # {}) =>
               Resolved = Some(routeAuthConfig[Longest(WildcardMatching("ALL"))])
        /\ Matching = {} => Resolved = None

C34_Witness ==
    /\ HasResolved
    /\ request.path = <<"admin", "public">>
    /\ ExactKey \notin DOMAIN routeAuthConfig
    /\ Key(request.method, <<"admin", "public", "*">>) \in DOMAIN routeAuthConfig
    /\ Key(request.method, <<"admin", "*">>) \in DOMAIN routeAuthConfig
    /\ routeAuthConfig[Key(request.method, <<"admin", "public", "*">>)]
           # routeAuthConfig[Key(request.method, <<"admin", "*">>)]
    /\ Resolved = Some(routeAuthConfig[Key(request.method, <<"admin", "public", "*">>)])

\* key k is a wildcard key "METHOD:/p/*" (or "METHOD:/*", with p empty)
IsWildcardKey(k) == k.p # <<>> /\ k.p[Len(k.p)] = "*"
\* its prefix p, and whether the request's path is /p or lies below /p
PrefixOf(k) == SubSeq(k.p, 1, Len(k.p) - 1)
AtOrBelow(prefix) ==
    /\ Len(prefix) <= Len(RequestParts)
    /\ SubSeq(RequestParts, 1, Len(prefix)) = prefix

\* C40: a wildcard key METHOD:/p/* applies to the path /p itself as well as
\* to every path below /p, and no wildcard key applies to the root path /.
\* With a single wildcard key of the request's method or ALL in the map, the
\* resolver returns its value exactly for the requests at or below a
\* non-empty prefix; for a request to /p that has no exact key of its method,
\* the key METHOD:/p/* decides; for a request to / only the exact keys
\* METHOD:/ and ALL:/ are consulted. So {ALL:/admin/*: true} requires auth
\* for /admin.
C40_WildcardCoversItsOwnPrefix ==
    HasResolved =>
        /\ \A k \in DOMAIN routeAuthConfig :
              (/\ DOMAIN routeAuthConfig = {k}
               /\ IsWildcardKey(k)
               /\ k.m \in {request.method, "ALL"}) =>
                  (Resolved = Some(routeAuthConfig[k])
                      <=> (PrefixOf(k) # <<>> /\ AtOrBelow(PrefixOf(k))))
        /\ (/\ RequestParts # <<>>
            /\ ExactKey \notin DOMAIN routeAuthConfig
            /\ Key(request.method, RequestParts \o <<"*">>) \in DOMAIN routeAuthConfig) =>
               Resolved = Some(routeAuthConfig[Key(request.method, RequestParts \o <<"*">>)])
        /\ RequestParts = <<>> =>
               Resolved = Coalesce(Lookup(routeAuthConfig, ExactKey),
                                   Lookup(routeAuthConfig, Key("ALL", request.path)))
        /\ (routeAuthConfig = [k \in {Key("ALL", <<"admin", "*">>)} |-> TRUE]
            /\ request.path = <<"admin">>) => Resolved = Some(TRUE)

C40_Witness ==
    /\ HasResolved
    /\ routeAuthConfig = [k \in {Key("ALL", <<"admin", "*">>)} |-> TRUE]
    /\ request.path = <<"admin">>
    /\ Resolved = Some(TRUE)

-----------------------------------------------------------------------------
(* Further properties of the stream encoder (checked under SpecStream) *)

\* stream() has built the response of this request
Streaming == stream.state # "none"

\* the reader's read is in flight: issued by pull() and not yet settled
ReadPending == stream.read # None /\ stream.read[1].kind = "pending"

\* C39: when the consumer cancels the output stream while an upstream read
\* is pending, the cancel leaves the chunk source cancelled; however the
\* read's completion and the resumption of pull() interleave afterwards, the
\* read settles with done, no chunk is taken from the source, no frame (data
\* frame or [DONE] marker) is enqueued or handed to the consumer, and the
\* source stays cancelled
C39_CancelDuringPendingRead ==
    [][/\ (stream.state = "readable" /\ ReadPending /\ stream'.state = "cancelled") =>
            /\ stream'.source = "cancelled"
            /\ stream'.out = stream.out
            /\ stream'.taken = stream.taken
       /\ (stream.state = "cancelled" /\ stream.source = "cancelled") =>
            /\ stream'.state = "cancelled"
            /\ stream'.source = "cancelled"
            /\ stream'.pos = stream.pos
            /\ stream'.out = stream.out
            /\ stream'.taken = stream.taken
            /\ (ReadPending /\ stream'.read # stream.read) =>
                   stream'.read = Some([kind |-> "done", value |-> None])]_vars

C39_Witness ==
    /\ stream.state = "cancelled"
    /\ stream.source = "cancelled"
    /\ stream.isSSE
    /\ stream.read = Some([kind |-> "done", value |-> None])
    /\ stream.pos = 1
    /\ stream.pos < Len(stream.upstream)
    /\ Len(stream.out) = 1

\* C36: on an mcp-sse route, whatever streamFormat the route declares, the
\* response is an SSE stream (Content-Type text/event-stream, every frame a
\* `data: ...\n\n` frame, the [DONE] marker when the source completes), read
\* from the result's `stream` when it has one and else from the result's
\* fullStream
C36_McpSseIsAlwaysSSE ==
    (route.responseType = "mcp-sse" /\ Streaming) =>
        /\ stream.isSSE
        /\ response # None
        /\ response[1].status = 200
        /\ response[1].body.stream = "sse"
        /\ response[1].body.contentType = "text/event-stream"
        /\ response[1].body.source =
              (IF handlerOutcome[1].result.stream THEN "stream" ELSE "fullStream")
        /\ \A i \in 1..Len(stream.out) :
              Head(stream.out[i]) = "data: " /\ Last(stream.out[i]) = "\n\n"
        /\ (SourceCompleted /\ stream.state = "closed") => Last(stream.out) = DoneFrame

C36_Witness ==
    /\ route.responseType = "mcp-sse" /\ route.streamFormat = "ndjson"
    /\ handlerOutcome # None
    /\ handlerOutcome[1].result.stream /\ handlerOutcome[1].result.fullStream
    /\ Streaming
    /\ response[1].body.source = "stream"
    /\ Len(stream.upstream) = 2
    /\ Len(stream.out) = 3
    /\ stream.out[3] = DoneFrame
    /\ OutputDrained

====
